---- MODULE Spec2Model ----
(***************************************************************************)
(* DriveSage: the directory analysis engine (tree walk, folder profiles,   *)
(* classification, duplicate detection) and the operation executor of the  *)
(* main process, over an explicit model of the filesystem.                 *)
(*                                                                         *)
(* A filesystem is a function from absolute path strings to nodes          *)
(*   [kind |-> "file" | "dir" | "loop" | "dangling", size |-> Nat,         *)
(*    readable |-> BOOLEAN]                                                *)
(* "loop" and "dangling" are entries that readdir lists but stat rejects:  *)
(* a symbolic link that points at itself and one that points at a path     *)
(* that does not exist; a directory that is not readable makes readdir     *)
(* fail.  Modification times and the scan timestamp are left out.          *)
(***************************************************************************)
EXTENDS Integers, Sequences, FiniteSets, TLC

VARIABLES fs, analyzeReply, analyzeCall, duplicatesReply, duplicatesCall,
          organizeReply, organizeCall, appState, ipc, ui, calls

vars == <<fs, analyzeReply, analyzeCall, duplicatesReply, duplicatesCall,
          organizeReply, organizeCall, appState, ipc, ui, calls>>

(***************************************************************************)
(* Strings                                                                 *)
(***************************************************************************)
Char(s, i) == SubSeq(s, i, i)

Alphabet == "-./0123456789ABCDEFGHIJKLMNOPQRSTUVWXYZ_abcdefghijklmnopqrstuvwxyz"

RECURSIVE IndexFrom(_, _, _)
IndexFrom(s, c, i) ==
    IF i > Len(s) THEN 0
    ELSE IF Char(s, i) = c THEN i ELSE IndexFrom(s, c, i + 1)

\* the rank of each character in code point order
RankTable ==
    [c \in {Char(Alphabet, i) : i \in 1..Len(Alphabet)} |-> IndexFrom(Alphabet, c, 1)]

CharRank(c) == RankTable[c]

RECURSIVE LastIndexOf(_, _, _)
LastIndexOf(s, c, i) ==
    IF i = 0 THEN 0
    ELSE IF Char(s, i) = c THEN i ELSE LastIndexOf(s, c, i - 1)

RECURSIVE StrLess(_, _)
StrLess(a, b) ==
    IF Len(b) = 0 THEN FALSE
    ELSE IF Len(a) = 0 THEN TRUE
    ELSE IF Head(a) = Head(b) THEN StrLess(Tail(a), Tail(b))
    ELSE CharRank(Head(a)) < CharRank(Head(b))

Digit(d) == Char("0123456789", d + 1)

RECURSIVE ToDec(_)
ToDec(n) == IF n < 10 THEN Digit(n) ELSE ToDec(n \div 10) \o Digit(n % 10)

LowerOf(c) ==
    LET k == IndexFrom("ABCDEFGHIJKLMNOPQRSTUVWXYZ", c, 1)
    IN  IF k = 0 THEN c ELSE Char("abcdefghijklmnopqrstuvwxyz", k)

RECURSIVE toLowerCase(_)
toLowerCase(s) ==
    IF Len(s) = 0 THEN "" ELSE LowerOf(Head(s)) \o toLowerCase(Tail(s))

includes(s, sub) ==
    \E i \in 1..(Len(s) - Len(sub) + 1) : SubSeq(s, i, i + Len(sub) - 1) = sub

startsWith(s, prefix) == Len(s) >= Len(prefix) /\ SubSeq(s, 1, Len(prefix)) = prefix

\* s.split(sep) for a separator of one character
RECURSIVE split(_, _)
split(s, sep) ==
    LET k == IndexFrom(s, sep, 1)
    IN  IF k = 0 THEN <<s>>
        ELSE <<SubSeq(s, 1, k - 1)>> \o split(SubSeq(s, k + 1, Len(s)), sep)

\* array.pop(): the last element
pop(array) == array[Len(array)]

RECURSIVE trimStart(_)
trimStart(s) == IF Len(s) > 0 /\ Head(s) = " " THEN trimStart(Tail(s)) ELSE s

RECURSIVE trimEnd(_)
trimEnd(s) ==
    IF Len(s) > 0 /\ Char(s, Len(s)) = " " THEN trimEnd(SubSeq(s, 1, Len(s) - 1)) ELSE s

trim(s) == trimEnd(trimStart(s))

(***************************************************************************)
(* Paths                                                                   *)
(***************************************************************************)
JoinPath(a, b) == IF a = "" THEN b ELSE a \o "/" \o b

Dirname(p) ==
    LET k == LastIndexOf(p, "/", Len(p))
    IN  IF k <= 1 THEN "/" ELSE SubSeq(p, 1, k - 1)

Basename(p) == SubSeq(p, LastIndexOf(p, "/", Len(p)) + 1, Len(p))

\* p is q or lies below q
IsUnder(p, q) ==
    \/ p = q
    \/ Len(p) > Len(q) /\ SubSeq(p, 1, Len(q) + 1) = q \o "/"

(***************************************************************************)
(* Filesystem primitives (fs-extra as the services use it)                 *)
(***************************************************************************)
\* a symbolic link that cannot be resolved
IsLink(node) == node.kind \in {"loop", "dangling"}

\* the directories on the way to p
RECURSIVE Ancestors(_)
Ancestors(p) ==
    LET d == Dirname(p)
    IN  IF d = "/" THEN {} ELSE {d} \cup Ancestors(d)

\* lstat: the path names an entry, whatever the entry is
HasEntry(fsys, p) == p \in DOMAIN fsys

\* fs.pathExists is fs.access, which follows a link: a link that cannot be
\* resolved does not exist
pathExists(fsys, p) == HasEntry(fsys, p) /\ ~IsLink(fsys[p])

StatFails(fsys, p) == ~HasEntry(fsys, p) \/ IsLink(fsys[p])

isDirectory(fsys, p) == fsys[p].kind = "dir"

ReaddirFails(fsys, p) ==
    \/ ~HasEntry(fsys, p)
    \/ fsys[p].kind # "dir"
    \/ ~fsys[p].readable

RECURSIVE SortNames(_)
SortNames(S) ==
    IF S = {} THEN <<>>
    ELSE LET m == CHOOSE x \in S : \A y \in S \ {x} : StrLess(x, y)
         IN  <<m>> \o SortNames(S \ {m})

readdir(fsys, dir) ==
    SortNames({Basename(p) : p \in {q \in DOMAIN fsys : q # dir /\ Dirname(q) = dir}})

(***************************************************************************)
(* Entry classifier                                                        *)
(***************************************************************************)
LargeFileThreshold == 100 * 1024 * 1024

SystemFileNames == {".DS_Store", "Thumbs.db", ".Spotlight-V100", ".fseventsd"}

ProtectedPatterns == {"gemini", "ai", "assistant", "code", "project"}

isSystemFile(filename) == filename \in SystemFileNames

isProtectedFile(filename) ==
    LET lowerFilename == toLowerCase(filename)
    IN  \E pattern \in ProtectedPatterns : includes(lowerFilename, pattern)

(***************************************************************************)
(* Folder profiler                                                         *)
(***************************************************************************)
NewFolderAnalysis(folderPath, folderName, relativePath) ==
    [name |-> folderName, path |-> folderPath, relativePath |-> relativePath,
     size |-> 0, fileCount |-> 0, subfolders |-> <<>>, looseFiles |-> <<>>]

\* analyzeFolderItems counting every entry, directories included, as a file
RECURSIVE analyzeFolderItemsCountAll(_, _, _, _)
analyzeFolderItemsCountAll(fsys, items, folderPath, fa) ==
    IF items = <<>> THEN [threw |-> FALSE, folder |-> fa]
    ELSE LET item == Head(items)
             itemPath == JoinPath(folderPath, item)
         IN  IF StatFails(fsys, itemPath)
             THEN [threw |-> TRUE, folder |-> fa]
             ELSE IF isDirectory(fsys, itemPath)
             THEN analyzeFolderItemsCountAll(fsys, Tail(items), folderPath,
                      [fa EXCEPT !.fileCount = @ + 1,
                                 !.subfolders = Append(@, item)])
             ELSE analyzeFolderItemsCountAll(fsys, Tail(items), folderPath,
                      [fa EXCEPT !.fileCount = @ + 1,
                                 !.size = @ + fsys[itemPath].size,
                                 !.looseFiles = Append(@,
                                     [name |-> item, size |-> fsys[itemPath].size])])

\* the loop of analyzeFolder over the listing; a failing stat leaves it
RECURSIVE analyzeFolderItems(_, _, _, _)
analyzeFolderItems(fsys, items, folderPath, fa) ==
    IF items = <<>> THEN [threw |-> FALSE, folder |-> fa]
    ELSE LET item == Head(items)
             itemPath == JoinPath(folderPath, item)
         IN  IF StatFails(fsys, itemPath)
             THEN [threw |-> TRUE, folder |-> fa]
             ELSE IF isDirectory(fsys, itemPath)
             THEN analyzeFolderItems(fsys, Tail(items), folderPath,
                      [fa EXCEPT !.subfolders = Append(@, item)])
             ELSE analyzeFolderItems(fsys, Tail(items), folderPath,
                      [fa EXCEPT !.fileCount = @ + 1,
                                 !.size = @ + fsys[itemPath].size,
                                 !.looseFiles = Append(@,
                                     [name |-> item, size |-> fsys[itemPath].size])])

analyzeFolder(fsys, folderPath, folderName, relativePath) ==
    LET fa == NewFolderAnalysis(folderPath, folderName, relativePath)
    IN  IF ReaddirFails(fsys, folderPath)
        THEN [threw |-> TRUE, folder |-> fa]
        ELSE analyzeFolderItems(fsys, readdir(fsys, folderPath), folderPath, fa)

(***************************************************************************)
(* Tree walker                                                             *)
(***************************************************************************)
NewAnalysis(drivePath) ==
    [metadata |-> [drivePath |-> drivePath, totalSize |-> 0,
                   fileCount |-> 0, folderCount |-> 0],
     folders |-> <<>>, largeFiles |-> <<>>, duplicates |-> <<>>,
     systemFiles |-> <<>>, protectedFiles |-> <<>>, errors |-> <<>>,
     visited |-> <<>>, listings |-> <<>>]

\* the report analyzeDrive returns.  visited and listings are a history of
\* the walk, not fields of the report: the files that reached the counting
\* branch, and the directories handed to fs.readdir, both in order
Report(analysis) ==
    [metadata |-> analysis.metadata, folders |-> analysis.folders,
     largeFiles |-> analysis.largeFiles, duplicates |-> analysis.duplicates,
     systemFiles |-> analysis.systemFiles, protectedFiles |-> analysis.protectedFiles,
     errors |-> analysis.errors]

FileRecord(item, itemPath, itemRelativePath, size) ==
    [name |-> item, path |-> itemPath, relativePath |-> itemRelativePath, size |-> size]

\* scanFile with the three classifications chained by else: a file lands
\* in the first list that applies only
scanFileExclusive(analysis, item, itemPath, itemRelativePath, size) ==
    LET rec == FileRecord(item, itemPath, itemRelativePath, size)
        large == size > LargeFileThreshold
        system == ~large /\ isSystemFile(item)
        protected == ~large /\ ~system /\ isProtectedFile(item)
    IN  [analysis EXCEPT
            !.metadata.fileCount = @ + 1,
            !.metadata.totalSize = @ + size,
            !.visited = Append(@, itemPath),
            !.largeFiles = IF large THEN Append(@, rec) ELSE @,
            !.systemFiles = IF system THEN Append(@, rec) ELSE @,
            !.protectedFiles = IF protected THEN Append(@, rec) ELSE @]

\* the else branch of the walk: count and classify one file
scanFile(analysis, item, itemPath, itemRelativePath, size) ==
    LET rec == FileRecord(item, itemPath, itemRelativePath, size)
    IN  [analysis EXCEPT
            !.metadata.fileCount = @ + 1,
            !.metadata.totalSize = @ + size,
            !.visited = Append(@, itemPath),
            !.largeFiles = IF size > LargeFileThreshold THEN Append(@, rec) ELSE @,
            !.systemFiles = IF isSystemFile(item) THEN Append(@, rec) ELSE @,
            !.protectedFiles = IF isProtectedFile(item) THEN Append(@, rec) ELSE @]

\* a catch that swallows the error
recordErrorDropped(analysis, itemPath) == analysis

\* the catch of the per-item try of the walk
recordError(analysis, itemPath) ==
    [analysis EXCEPT !.errors = Append(@, [path |-> itemPath, error |-> "error"])]

RECURSIVE scanDirectory(_, _, _, _)
RECURSIVE scanItems(_, _, _, _, _)

\* one iteration of the for loop of scanDirectory, the per-item try/catch included
scanItem(fsys, item, dirPath, analysis, relativePath) ==
    LET itemPath == JoinPath(dirPath, item)
        itemRelativePath == JoinPath(relativePath, item)
    IN  IF StatFails(fsys, itemPath) THEN recordError(analysis, itemPath)
        ELSE IF isDirectory(fsys, itemPath)
        THEN LET counted == [analysis EXCEPT !.metadata.folderCount = @ + 1,
                                             !.listings = Append(@, itemPath)]
                 prof == analyzeFolder(fsys, itemPath, item, itemRelativePath)
             IN  IF prof.threw THEN recordError(counted, itemPath)
                 ELSE LET sub == scanDirectory(fsys, itemPath,
                                     [counted EXCEPT !.folders = Append(@, prof.folder)],
                                     itemRelativePath)
                      IN  IF sub.threw THEN recordError(sub.analysis, itemPath)
                          ELSE sub.analysis
        ELSE scanFile(analysis, item, itemPath, itemRelativePath, fsys[itemPath].size)

scanItems(fsys, items, dirPath, analysis, relativePath) ==
    IF items = <<>> THEN analysis
    ELSE scanItems(fsys, Tail(items), dirPath,
                   scanItem(fsys, Head(items), dirPath, analysis, relativePath),
                   relativePath)

scanDirectory(fsys, dirPath, analysis, relativePath) ==
    LET listing == [analysis EXCEPT !.listings = Append(@, dirPath)]
    IN  IF ReaddirFails(fsys, dirPath)
        THEN [threw |-> TRUE, analysis |-> listing]
        ELSE [threw |-> FALSE,
              analysis |-> scanItems(fsys, readdir(fsys, dirPath), dirPath,
                                     listing, relativePath)]

(***************************************************************************)
(* Duplicate detector                                                      *)
(***************************************************************************)
EmptyMap == [k \in {} |-> ""]

MapSet(m, k, v) == [x \in DOMAIN m \cup {k} |-> IF x = k THEN v ELSE m[x]]

\* HashKey without the size
HashKeyNameOnly(item, size) == item

HashKey(item, size) == item \o "_" \o ToDec(size)

RECURSIVE scanForDuplicates(_, _, _, _)
RECURSIVE scanDupItems(_, _, _, _, _)

\* scanDupItem that makes the latest copy the original of the next one
scanDupItemChained(fsys, item, dirPath, st, relativePath) ==
    LET itemPath == JoinPath(dirPath, item)
        itemRelativePath == JoinPath(relativePath, item)
    IN  IF StatFails(fsys, itemPath) THEN st
        ELSE IF isDirectory(fsys, itemPath)
        THEN scanForDuplicates(fsys, itemPath, st, itemRelativePath).st
        ELSE LET size == fsys[itemPath].size
                 hash == HashKey(item, size)
             IN  IF hash \in DOMAIN st.fileHashes
                 THEN [st EXCEPT !.duplicates = Append(@,
                          [original |-> st.fileHashes[hash], duplicate |-> itemPath,
                           relativePath |-> itemRelativePath, size |-> size]),
                                 !.fileHashes = MapSet(@, hash, itemPath)]
                 ELSE [st EXCEPT !.fileHashes = MapSet(@, hash, itemPath)]

\* one iteration of the for loop of scanForDuplicates; st is the pair of
\* the fingerprint map and the duplicates list both calls share
scanDupItem(fsys, item, dirPath, st, relativePath) ==
    LET itemPath == JoinPath(dirPath, item)
        itemRelativePath == JoinPath(relativePath, item)
    IN  IF StatFails(fsys, itemPath) THEN st
        ELSE IF isDirectory(fsys, itemPath)
        THEN scanForDuplicates(fsys, itemPath, st, itemRelativePath).st
        ELSE LET size == fsys[itemPath].size
                 hash == HashKey(item, size)
             IN  IF hash \in DOMAIN st.fileHashes
                 THEN [st EXCEPT !.duplicates = Append(@,
                          [original |-> st.fileHashes[hash], duplicate |-> itemPath,
                           relativePath |-> itemRelativePath, size |-> size])]
                 ELSE [st EXCEPT !.fileHashes = MapSet(@, hash, itemPath)]

scanDupItems(fsys, items, dirPath, st, relativePath) ==
    IF items = <<>> THEN st
    ELSE scanDupItems(fsys, Tail(items), dirPath,
                      scanDupItem(fsys, Head(items), dirPath, st, relativePath),
                      relativePath)

scanForDuplicates(fsys, dirPath, st, relativePath) ==
    IF ReaddirFails(fsys, dirPath)
    THEN [threw |-> TRUE, st |-> st]
    ELSE [threw |-> FALSE,
          st |-> scanDupItems(fsys, readdir(fsys, dirPath), dirPath, st, relativePath)]

NewDuplicateScan == [fileHashes |-> EmptyMap, duplicates |-> <<>>]

\* the entries on the way to p, p included, that are no directory
Stops(fsys, p) ==
    {a \in Ancestors(p) \cup {p} : HasEntry(fsys, a) /\ fsys[a].kind # "dir"}

\* the message of the error a failed fs.readdir raises: the resolution of
\* the path ends at the first entry that is no directory (a link that points
\* at itself, a link whose target is missing, a file), at a missing entry or
\* at the directory it may not list
ReaddirError(fsys, dirPath) ==
    LET stops == Stops(fsys, dirPath)
        first == CHOOSE a \in stops : \A b \in stops : Len(a) <= Len(b)
    IN  (IF stops # {} /\ fsys[first].kind = "loop"
         THEN "ELOOP: too many symbolic links encountered"
         ELSE IF stops # {} /\ fsys[first].kind = "dangling"
         THEN "ENOENT: no such file or directory"
         ELSE IF stops # {} THEN "ENOTDIR: not a directory"
         ELSE IF ~HasEntry(fsys, dirPath) THEN "ENOENT: no such file or directory"
         ELSE "EACCES: permission denied")
            \o ", scandir '" \o dirPath \o "'"

findDuplicates(fsys, drivePath, analysis) ==
    LET r == scanForDuplicates(fsys, drivePath, NewDuplicateScan, "")
    IN  IF r.threw
        THEN [threw |-> TRUE, analysis |-> analysis, error |-> ReaddirError(fsys, drivePath)]
        ELSE [threw |-> FALSE,
              analysis |-> [analysis EXCEPT !.duplicates = r.st.duplicates]]

\* analyzeDrive: the report, or the error it rethrows; an error raised by
\* the walk of the root or by the duplicate scan is the one fs.readdir gave
analyzeDrive(fsys, drivePath) ==
    LET analysis == NewAnalysis(drivePath)
    IN  IF ~pathExists(fsys, drivePath)
        THEN [threw |-> TRUE, analysis |-> analysis,
              error |-> "Drive path does not exist: " \o drivePath]
        ELSE LET walked == scanDirectory(fsys, drivePath, analysis, "")
             IN  IF walked.threw
                 THEN [threw |-> TRUE, analysis |-> walked.analysis,
                       error |-> ReaddirError(fsys, drivePath)]
                 ELSE findDuplicates(fsys, drivePath, walked.analysis)

(***************************************************************************)
(* analyzeDrive one await at a time.  A call in flight is a record: pc is  *)
(* the part of analyzeDrive it is in, stack the activations of             *)
(* scanDirectory (then of scanForDuplicates) with the await each is        *)
(* suspended at, analysis, fileHashes and duplicates the objects the call  *)
(* created, reply what its IPC handler resolves to.  A frame is            *)
(*   at "readdir"            awaiting fs.readdir(dirPath)                  *)
(*   at "stat"               awaiting fs.stat of the head of items, or at  *)
(*                           the end of the loop when items is empty       *)
(*   at "analyzeFolder"      awaiting fs.readdir inside analyzeFolder      *)
(*   at "analyzeFolder.stat" awaiting fs.stat inside analyzeFolder         *)
(*   at "scanDirectory", "scanForDuplicates"  awaiting the recursive call  *)
(***************************************************************************)
NoFolder == NewFolderAnalysis("", "", "")

Frame(dirPath, relativePath) ==
    [dirPath |-> dirPath, relativePath |-> relativePath, at |-> "readdir",
     items |-> <<>>, folder |-> NoFolder, entries |-> <<>>]

NewTask(channel, drivePath) ==
    [pc |-> "pathExists", channel |-> channel, drivePath |-> drivePath,
     analysis |-> NewAnalysis(drivePath), stack |-> <<>>,
     fileHashes |-> EmptyMap, duplicates |-> <<>>,
     reply |-> [success |-> FALSE, data |-> <<>>]]

NoTask == [NewTask("", "") EXCEPT !.pc = "idle"]

Top(stack) == stack[Len(stack)]

Callers(stack) == SubSeq(stack, 1, Len(stack) - 1)

SetTop(stack, f) == Callers(stack) \o <<f>>

\* the loop of a frame moving on to its next item
NextItem(f) == [f EXCEPT !.items = Tail(@), !.at = "stat"]

\* the call is over: the catch of the IPC handler replies with the message
Rejected(t, error) ==
    [t EXCEPT !.pc = "returned", !.stack = <<>>,
              !.reply = [success |-> FALSE, data |-> <<>>, error |-> error]]

\* the call is over: analyze-drive replies with the report, find-duplicates
\* with its duplicates list
Resolved(t, analysis) ==
    [t EXCEPT !.pc = "returned", !.stack = <<>>, !.analysis = analysis,
              !.reply = [success |-> TRUE,
                         data |-> IF t.channel = "find-duplicates"
                                  THEN analysis.duplicates
                                  ELSE Report(analysis)]]

\* pathExistsStep returning the empty report for a root that does not exist
pathExistsStepLenient(fsys, t) ==
    IF ~pathExists(fsys, t.drivePath)
    THEN Resolved(t, t.analysis)
    ELSE [t EXCEPT !.pc = "scanDirectory", !.stack = <<Frame(t.drivePath, "")>>]

\* from the await of fs.pathExists to the first await of scanDirectory
pathExistsStep(fsys, t) ==
    IF ~pathExists(fsys, t.drivePath)
    THEN Rejected(t, "Drive path does not exist: " \o t.drivePath)
    ELSE [t EXCEPT !.pc = "scanDirectory", !.stack = <<Frame(t.drivePath, "")>>]

\* findDuplicatesStep with a duplicates list that outlives the call
findDuplicatesStepShared(t) ==
    [t EXCEPT !.pc = "findDuplicates", !.stack = <<Frame(t.drivePath, "")>>,
              !.fileHashes = EmptyMap, !.duplicates = duplicatesReply.data]

\* from the return of the walk of the root to the first await of
\* scanForDuplicates: findDuplicates with its new Map and its new list
findDuplicatesStep(t) ==
    [t EXCEPT !.pc = "findDuplicates", !.stack = <<Frame(t.drivePath, "")>>,
              !.fileHashes = EmptyMap, !.duplicates = <<>>]

\* pushFolder putting the profile at the front of folders
pushFolderFirst(analysis, folderAnalysis) ==
    [analysis EXCEPT !.folders = <<folderAnalysis>> \o @]

\* analysis.folders.push(folderAnalysis), before the walk of the folder
pushFolder(analysis, folderAnalysis) ==
    [analysis EXCEPT !.folders = Append(@, folderAnalysis)]

\* the walk from one await to the next, in the innermost activation
scanDirectoryStep(fsys, t) ==
    LET f == Top(t.stack)
        callers == Callers(t.stack)
        item == Head(f.items)
        itemPath == JoinPath(f.dirPath, item)
        itemRelativePath == JoinPath(f.relativePath, item)
    IN  CASE f.at = "readdir" ->
               LET listing == [t.analysis EXCEPT !.listings = Append(@, f.dirPath)]
               IN  IF ReaddirFails(fsys, f.dirPath)
                   THEN IF callers = <<>>
                        THEN Rejected([t EXCEPT !.analysis = listing],
                                      ReaddirError(fsys, f.dirPath))
                        ELSE [t EXCEPT !.analysis = recordError(listing, f.dirPath),
                                       !.stack = SetTop(callers, NextItem(Top(callers)))]
                   ELSE [t EXCEPT !.analysis = listing,
                                  !.stack = SetTop(@, [f EXCEPT
                                                !.items = readdir(fsys, f.dirPath),
                                                !.at = "stat"])]
          [] f.at = "stat" /\ f.items = <<>> ->
               IF callers = <<>>
               THEN findDuplicatesStep(t)
               ELSE [t EXCEPT !.stack = SetTop(callers, NextItem(Top(callers)))]
          [] f.at = "stat" /\ f.items # <<>> ->
               IF StatFails(fsys, itemPath)
               THEN [t EXCEPT !.analysis = recordError(@, itemPath),
                              !.stack = SetTop(@, NextItem(f))]
               ELSE IF isDirectory(fsys, itemPath)
               THEN [t EXCEPT !.analysis = [@ EXCEPT !.metadata.folderCount = @ + 1,
                                                     !.listings = Append(@, itemPath)],
                              !.stack = SetTop(@, [f EXCEPT !.at = "analyzeFolder"])]
               ELSE [t EXCEPT !.analysis = scanFile(@, item, itemPath, itemRelativePath,
                                                    fsys[itemPath].size),
                              !.stack = SetTop(@, NextItem(f))]
          [] f.at = "analyzeFolder" ->
               IF ReaddirFails(fsys, itemPath)
               THEN [t EXCEPT !.analysis = recordError(@, itemPath),
                              !.stack = SetTop(@, NextItem(f))]
               ELSE [t EXCEPT !.stack = SetTop(@, [f EXCEPT
                         !.folder = NewFolderAnalysis(itemPath, item, itemRelativePath),
                         !.entries = readdir(fsys, itemPath),
                         !.at = "analyzeFolder.stat"])]
          [] f.at = "analyzeFolder.stat" /\ f.entries = <<>> ->
               [t EXCEPT !.analysis = pushFolder(@, f.folder),
                         !.stack = SetTop(@, [f EXCEPT !.at = "scanDirectory",
                                                       !.folder = NoFolder])
                                   \o <<Frame(itemPath, itemRelativePath)>>]
          [] f.at = "analyzeFolder.stat" /\ f.entries # <<>> ->
               LET one == analyzeFolderItems(fsys, <<Head(f.entries)>>, itemPath, f.folder)
               IN  IF one.threw
                   THEN [t EXCEPT !.analysis = recordError(@, itemPath),
                                  !.stack = SetTop(@, [NextItem(f) EXCEPT
                                                !.folder = NoFolder, !.entries = <<>>])]
                   ELSE [t EXCEPT !.stack = SetTop(@, [f EXCEPT
                                                !.folder = one.folder,
                                                !.entries = Tail(@)])]

\* the fingerprint map a call looks up and fills: every call of one Map
\* whatever call is asking
fileHashesStatic(ts, id) ==
    LET keys == UNION {DOMAIN ts[i].fileHashes : i \in DOMAIN ts}
    IN  [k \in keys |->
            ts[CHOOSE i \in DOMAIN ts : k \in DOMAIN ts[i].fileHashes].fileHashes[k]]

\* the fingerprint map a call looks up and fills: the Map its own
\* findDuplicates created
fileHashes(ts, id) == ts[id].fileHashes

\* the duplicate scan from one await to the next, in the innermost
\* activation; map is the fingerprint map handed down the recursion
scanForDuplicatesStep(fsys, t, map) ==
    LET f == Top(t.stack)
        callers == Callers(t.stack)
        item == Head(f.items)
        itemPath == JoinPath(f.dirPath, item)
        itemRelativePath == JoinPath(f.relativePath, item)
    IN  CASE f.at = "readdir" ->
               IF ReaddirFails(fsys, f.dirPath)
               THEN IF callers = <<>>
                    THEN Rejected(t, ReaddirError(fsys, f.dirPath))
                    ELSE [t EXCEPT !.stack = SetTop(callers, NextItem(Top(callers)))]
               ELSE [t EXCEPT !.stack = SetTop(@, [f EXCEPT
                                            !.items = readdir(fsys, f.dirPath),
                                            !.at = "stat"])]
          [] f.at = "stat" /\ f.items = <<>> ->
               IF callers = <<>>
               THEN Resolved(t, [t.analysis EXCEPT !.duplicates = t.duplicates])
               ELSE [t EXCEPT !.stack = SetTop(callers, NextItem(Top(callers)))]
          [] f.at = "stat" /\ f.items # <<>> ->
               IF StatFails(fsys, itemPath)
               THEN [t EXCEPT !.stack = SetTop(@, NextItem(f))]
               ELSE IF isDirectory(fsys, itemPath)
               THEN [t EXCEPT !.stack = SetTop(@, [f EXCEPT !.at = "scanForDuplicates"])
                                        \o <<Frame(itemPath, itemRelativePath)>>]
               ELSE LET st == scanDupItem(fsys, item, f.dirPath,
                                  [fileHashes |-> map, duplicates |-> t.duplicates],
                                  f.relativePath)
                    IN  [t EXCEPT !.fileHashes = st.fileHashes,
                                  !.duplicates = st.duplicates,
                                  !.stack = SetTop(@, NextItem(f))]

(***************************************************************************)
(* Filesystem mutations (fs-extra move and remove)                         *)
(***************************************************************************)
\* the proper ancestors of p below "/"
NewDir == [kind |-> "dir", size |-> 0, readable |-> TRUE]

\* fs.move(src, dest) without overwrite: it lstats the source (a link that
\* cannot be resolved is moved as the link it is), refuses a destination
\* inside the source and a directory over an entry that is not one, creates
\* the missing parent directories of the destination, refuses a destination
\* that pathExists finds and renames the subtree; the rename replaces a
\* destination that is a link that cannot be resolved
moveThrows(fsys, src, dest) ==
    \/ ~HasEntry(fsys, src)
    \/ pathExists(fsys, dest)
    \/ fsys[src].kind = "dir" /\ IsUnder(dest, src)
    \/ fsys[src].kind = "dir" /\ HasEntry(fsys, dest)
    \/ \E a \in Ancestors(dest) : HasEntry(fsys, a) /\ fsys[a].kind # "dir"

Rebase(p, src, dest) == dest \o SubSeq(p, Len(src) + 1, Len(p))

moveResult(fsys, src, dest) ==
    LET moved == {p \in DOMAIN fsys : IsUnder(p, src)}
        kept == DOMAIN fsys \ moved
        made == Ancestors(dest) \ kept
        landed == {Rebase(p, src, dest) : p \in moved}
    IN  [q \in kept \cup made \cup landed |->
            IF q \in landed
            THEN fsys[CHOOSE p \in moved : Rebase(p, src, dest) = q]
            ELSE IF q \in kept THEN fsys[q] ELSE NewDir]

move(fsys, src, dest) ==
    IF moveThrows(fsys, src, dest)
    THEN [threw |-> TRUE, fs |-> fsys]
    ELSE [threw |-> FALSE, fs |-> moveResult(fsys, src, dest)]

\* a directory that cannot be listed and is not empty cannot be emptied
Stuck(fsys, p) ==
    /\ fsys[p].kind = "dir"
    /\ ~fsys[p].readable
    /\ \E q \in DOMAIN fsys : q # p /\ IsUnder(q, p)

\* fs.remove(path): rm -rf; a missing path is not an error.  What cannot be
\* removed (a stuck directory, what is below it and what is above it up to
\* path) stays, the rest of the subtree goes
removeResult(fsys, path) ==
    LET sub == {p \in DOMAIN fsys : IsUnder(p, path)}
        stuck == {p \in sub : Stuck(fsys, p)}
        stays == {p \in sub : \E u \in stuck : IsUnder(p, u) \/ IsUnder(u, p)}
    IN  [q \in (DOMAIN fsys \ sub) \cup stays |-> fsys[q]]

remove(fsys, path) ==
    LET sub == {p \in DOMAIN fsys : IsUnder(p, path)}
    IN  [threw |-> \E p \in sub : Stuck(fsys, p), fs |-> removeResult(fsys, path)]

(***************************************************************************)
(* Operation executor                                                      *)
(***************************************************************************)
Undefined == "undefined"

Field(operation, f) == IF f \in DOMAIN operation THEN operation[f] ELSE Undefined

Truthy(v) == v # Undefined /\ v # ""

NewResults(operations) ==
    [moved |-> <<>>, deleted |-> <<>>, renamed |-> <<>>, errors |-> <<>>,
     summary |-> [total |-> Len(operations), successful |-> 0, failed |-> 0]]

\* executeOperation with a delete branch that ignores dryRun
executeOperationEagerDelete(run, operation, dryRun) ==
    LET type == Field(operation, "type") IN
    IF type = "move" THEN
        LET m == IF dryRun THEN [threw |-> FALSE, fs |-> run.fs]
                 ELSE move(run.fs, operation.source, operation.destination)
        IN  IF m.threw THEN [threw |-> TRUE, run |-> [run EXCEPT !.fs = m.fs]]
            ELSE [threw |-> FALSE,
                  run |-> [run EXCEPT !.fs = m.fs,
                              !.results.moved = Append(@,
                                  [source |-> operation.source,
                                   destination |-> operation.destination])]]
    ELSE IF type = "delete" THEN
        LET m == remove(run.fs, operation.path)
        IN  IF m.threw THEN [threw |-> TRUE, run |-> [run EXCEPT !.fs = m.fs]]
            ELSE [threw |-> FALSE,
                  run |-> [run EXCEPT !.fs = m.fs,
                              !.results.deleted = Append(@, operation.path)]]
    ELSE IF type = "rename" THEN
        LET m == IF dryRun THEN [threw |-> FALSE, fs |-> run.fs]
                 ELSE move(run.fs, operation.oldPath, operation.newPath)
        IN  IF m.threw THEN [threw |-> TRUE, run |-> [run EXCEPT !.fs = m.fs]]
            ELSE [threw |-> FALSE,
                  run |-> [run EXCEPT !.fs = m.fs,
                              !.results.renamed = Append(@,
                                  [oldPath |-> operation.oldPath,
                                   newPath |-> operation.newPath])]]
    ELSE [threw |-> TRUE, run |-> run]

\* the switch of executeOperation on a run state [fs, results, attempted]
executeOperation(run, operation, dryRun) ==
    LET type == Field(operation, "type") IN
    IF type = "move" THEN
        LET m == IF dryRun THEN [threw |-> FALSE, fs |-> run.fs]
                 ELSE move(run.fs, operation.source, operation.destination)
        IN  IF m.threw THEN [threw |-> TRUE, run |-> [run EXCEPT !.fs = m.fs]]
            ELSE [threw |-> FALSE,
                  run |-> [run EXCEPT !.fs = m.fs,
                              !.results.moved = Append(@,
                                  [source |-> operation.source,
                                   destination |-> operation.destination])]]
    ELSE IF type = "delete" THEN
        LET m == IF dryRun THEN [threw |-> FALSE, fs |-> run.fs]
                 ELSE remove(run.fs, operation.path)
        IN  IF m.threw THEN [threw |-> TRUE, run |-> [run EXCEPT !.fs = m.fs]]
            ELSE [threw |-> FALSE,
                  run |-> [run EXCEPT !.fs = m.fs,
                              !.results.deleted = Append(@, operation.path)]]
    ELSE IF type = "rename" THEN
        LET m == IF dryRun THEN [threw |-> FALSE, fs |-> run.fs]
                 ELSE move(run.fs, operation.oldPath, operation.newPath)
        IN  IF m.threw THEN [threw |-> TRUE, run |-> [run EXCEPT !.fs = m.fs]]
            ELSE [threw |-> FALSE,
                  run |-> [run EXCEPT !.fs = m.fs,
                              !.results.renamed = Append(@,
                                  [oldPath |-> operation.oldPath,
                                   newPath |-> operation.newPath])]]
    ELSE [threw |-> TRUE, run |-> run]

\* the path an error entry carries: operation.source || operation.path
errorPath(operation) ==
    IF Truthy(Field(operation, "source")) THEN Field(operation, "source")
    ELSE Field(operation, "path")

\* organizeStep with a catch that records the error without counting it
organizeStepUncounted(run, operation, dryRun) ==
    LET tried == [run EXCEPT !.attempted = Append(@, operation)]
        r == executeOperation(tried, operation, dryRun)
    IN  IF ~r.threw
        THEN [r.run EXCEPT !.results.summary.successful = @ + 1,
                           !.outcomes = Append(@, TRUE)]
        ELSE [r.run EXCEPT !.results.errors = Append(@,
                               [operation |-> Field(operation, "type"),
                                path |-> errorPath(operation),
                                error |-> "error"]),
                           !.outcomes = Append(@, FALSE)]

\* one iteration of the loop of organizeFiles: the try and its catch
organizeStep(run, operation, dryRun) ==
    LET tried == [run EXCEPT !.attempted = Append(@, operation)]
        r == executeOperation(tried, operation, dryRun)
    IN  IF ~r.threw
        THEN [r.run EXCEPT !.results.summary.successful = @ + 1,
                           !.outcomes = Append(@, TRUE)]
        ELSE [r.run EXCEPT !.results.errors = Append(@,
                               [operation |-> Field(operation, "type"),
                                path |-> errorPath(operation),
                                error |-> "error"]),
                           !.results.summary.failed = @ + 1,
                           !.outcomes = Append(@, FALSE)]

\* organizeFiles up to its loop: the call record of a run.  results,
\* attempted and outcomes grow with the loop, todo is what the loop has not
\* reached, fs the filesystem the run started from and left the one it
\* returned on
NewRun(operations, dryRun, fsys) ==
    [pc |-> "running", operations |-> operations, todo |-> operations,
     dryRun |-> dryRun, fs |-> fsys, left |-> fsys,
     results |-> NewResults(operations), attempted |-> <<>>, outcomes |-> <<>>]

\* organizeLoop leaving the loop at the first failed operation
organizeLoopAbort(call, fsys) ==
    LET r == organizeStep([fs |-> fsys, results |-> call.results,
                           attempted |-> call.attempted, outcomes |-> call.outcomes],
                          Head(call.todo), call.dryRun)
    IN  [fs |-> r.fs,
         call |-> [call EXCEPT !.results = r.results, !.attempted = r.attempted,
                               !.outcomes = r.outcomes,
                               !.todo = IF r.results.summary.failed
                                             > call.results.summary.failed
                                        THEN <<>> ELSE Tail(@)]]

\* the for loop of organizeFiles from one await of executeOperation to the
\* next: the head of todo is executed on the filesystem as it is now
organizeLoop(call, fsys) ==
    LET r == organizeStep([fs |-> fsys, results |-> call.results,
                           attempted |-> call.attempted, outcomes |-> call.outcomes],
                          Head(call.todo), call.dryRun)
    IN  [fs |-> r.fs,
         call |-> [call EXCEPT !.results = r.results, !.attempted = r.attempted,
                               !.outcomes = r.outcomes, !.todo = Tail(@)]]

\* organizeFiles returning its moved list newest first
organizeFilesNewestFirst(call) ==
    [call.results EXCEPT !.moved = [k \in 1..Len(@) |-> @[Len(@) + 1 - k]]]

\* organizeFiles after its loop: the results it returns
organizeFiles(call) == call.results

(***************************************************************************)
(* Renderer: the plan generated from an analysis, and the settings form    *)
(***************************************************************************)
\* null where a string is expected, and null where a report is expected
Null == "null"
NullAnalysis == <<>>

\* the own properties of folderMap
folderMap ==
    [x \in {"jpg", "jpeg", "png", "gif", "pdf", "doc", "docx", "txt",
            "mp4", "mov", "mp3", "wav"} |->
        CASE x \in {"jpg", "jpeg", "png", "gif"} -> "Images"
          [] x \in {"pdf", "doc", "docx", "txt"} -> "Documents"
          [] x \in {"mp4", "mov"} -> "Videos"
          [] OTHER -> "Audio"]

\* the lower-case property names folderMap inherits from Object.prototype;
\* a lookup of one of them gives a function or an object, not a string
InheritedKeys == {"constructor", "__proto__"}

Inherited == "[object]"

\* folderMap[extension] || null
getDestinationFolder(extension) ==
    IF extension \in DOMAIN folderMap THEN folderMap[extension]
    ELSE IF extension \in InheritedKeys THEN Inherited
    ELSE Null

\* the body of the inner forEach of generateOperations for one loose file;
\* path.join raises a TypeError for an argument that is not a string
fileOperation(folder, file) ==
    IF includes(file.name, ".") /\ ~startsWith(file.name, ".")
    THEN LET extension == toLowerCase(pop(split(file.name, ".")))
             destinationFolder == getDestinationFolder(extension)
         IN  IF destinationFolder = Null THEN [threw |-> FALSE, operations |-> <<>>]
             ELSE IF destinationFolder = Inherited
             THEN [threw |-> TRUE, operations |-> <<>>]
             ELSE [threw |-> FALSE,
                   operations |->
                       <<[type |-> "move",
                          source |-> JoinPath(folder.path, file.name),
                          destination |-> JoinPath(JoinPath(folder.path, destinationFolder),
                                                   file.name)]>>]
    ELSE [threw |-> FALSE, operations |-> <<>>]

RECURSIVE fileOperations(_, _)
fileOperations(folder, files) ==
    IF files = <<>> THEN [threw |-> FALSE, operations |-> <<>>]
    ELSE LET first == fileOperation(folder, Head(files))
             rest == fileOperations(folder, Tail(files))
         IN  IF first.threw THEN first
             ELSE [threw |-> rest.threw, operations |-> first.operations \o rest.operations]

RECURSIVE folderOperations(_)
folderOperations(folders) ==
    IF folders = <<>> THEN [threw |-> FALSE, operations |-> <<>>]
    ELSE LET first == fileOperations(Head(folders), Head(folders).looseFiles)
             rest == folderOperations(Tail(folders))
         IN  IF first.threw THEN first
             ELSE [threw |-> rest.threw, operations |-> first.operations \o rest.operations]

\* generateOperations taking its deletes from protectedFiles
generateOperationsDeleteProtected(analysis) ==
    IF analysis = NullAnalysis THEN [threw |-> FALSE, operations |-> <<>>]
    ELSE LET moves == folderOperations(analysis.folders)
             deletes == [i \in DOMAIN analysis.protectedFiles |->
                            [type |-> "delete", path |-> analysis.protectedFiles[i].path]]
         IN  IF moves.threw THEN [threw |-> TRUE, operations |-> <<>>]
             ELSE [threw |-> FALSE, operations |-> moves.operations \o deletes]

\* generateOperations: the moves of the loose files of every folder profile,
\* then the deletes of the system files; or the error it raises
generateOperations(analysis) ==
    IF analysis = NullAnalysis THEN [threw |-> FALSE, operations |-> <<>>]
    ELSE LET moves == folderOperations(analysis.folders)
             deletes == [i \in DOMAIN analysis.systemFiles |->
                            [type |-> "delete", path |-> analysis.systemFiles[i].path]]
         IN  IF moves.threw THEN [threw |-> TRUE, operations |-> <<>>]
             ELSE [threw |-> FALSE, operations |-> moves.operations \o deletes]

\* the pattern list saveSettings reads from the input field
parsePatterns(value) ==
    SelectSeq([i \in DOMAIN split(value, ",") |-> trim(split(value, ",")[i])],
              LAMBDA pattern : Len(pattern) > 0)

(***************************************************************************)
(* Bounds and the filesystems the runs start from                          *)
(***************************************************************************)
MaxFaults == 1
MaxOps == 3
MaxRuns == 2
MaxCalls == 2

SizeOptions == {1, 11}

Root == "/r"

FileSlots == {"/r/a", "/r/D/a", "/r/D/a_1", "/r/D/E/a"}
DirSlots == {"/r", "/r/D", "/r/D/E"}

Absent == [kind |-> "absent", size |-> 0, readable |-> FALSE]
Loop == [kind |-> "loop", size |-> 0, readable |-> FALSE]
Dangling == [kind |-> "dangling", size |-> 0, readable |-> FALSE]
File(n) == [kind |-> "file", size |-> n, readable |-> TRUE]
Dir(r) == [kind |-> "dir", size |-> 0, readable |-> r]

FileOptions == {Absent, Loop, Dangling} \cup {File(n) : n \in SizeOptions}
DirOptions == {Absent, Dir(TRUE), Dir(FALSE)}

Faulty(node) == IsLink(node) \/ (node.kind = "dir" /\ ~node.readable)

\* every present entry lies in a present directory, the root is present
\* and at most MaxFaults entries are faulty
WellFormed(c) ==
    /\ c[Root].kind = "dir"
    /\ \A p \in DOMAIN c : p # Root /\ c[p].kind # "absent"
                               => c[Dirname(p)].kind = "dir"
    /\ Cardinality({p \in DOMAIN c : Faulty(c[p])}) <= MaxFaults

Present(c) == [p \in {q \in DOMAIN c : c[q].kind # "absent"} |-> c[p]]

Trees ==
    {Present(c) : c \in
        {x \in {f @@ d : f \in [FileSlots -> FileOptions], d \in [DirSlots -> DirOptions]} :
            WellFormed(x)}}

\* the smaller family the executor runs start from
ExecSlots == {"/r", "/r/a", "/r/D", "/r/D/a", "/r/D/E"}

ExecTrees ==
    {t \in Trees : /\ DOMAIN t \subseteq ExecSlots
                   /\ \A p \in DOMAIN t : t[p].kind = "file" => t[p].size = 1}

\* a second family of trees, with the names and sizes the classifier and
\* the pre-order of the folders distinguish
NamedFileOptions ==
    [x \in {"/r/gemini.txt", "/r/D/ai-project.zip", "/r/D/.DS_Store",
            "/r/D/E/photo.JPG", "/r/F/Thumbs.db"} |->
        CASE x = "/r/D/ai-project.zip" ->
                 {Absent, Loop, File(1), File(LargeFileThreshold),
                  File(LargeFileThreshold + 1)}
          [] x = "/r/D/.DS_Store" -> {Absent, Loop, File(1), File(LargeFileThreshold + 1)}
          [] x = "/r/F/Thumbs.db" -> {Absent, Loop, File(1)}
          [] OTHER -> {Absent, File(1)}]

NamedDirSlots == {"/r", "/r/D", "/r/D/E", "/r/F"}

NamedTrees ==
    {Present(c) : c \in
        {x \in {f @@ d : f \in {g \in [DOMAIN NamedFileOptions ->
                                          UNION {NamedFileOptions[y] : y \in DOMAIN NamedFileOptions}] :
                                    \A y \in DOMAIN g : g[y] \in NamedFileOptions[y]},
                         d \in [NamedDirSlots -> DirOptions]} :
            WellFormed(x)}}


\* the trees the renderer runs start from: a folder with files the plan
\* moves, deletes, leaves alone or fails on
UIFileSlots == {"/r/D/.DS_Store", "/r/D/ai.mp3", "/r/D/x.constructor"}

TreeOf(files) ==
    [p \in {"/r", "/r/D"} \cup files |-> IF p \in files THEN File(1) ELSE Dir(TRUE)]

UITrees == {TreeOf(files) : files \in SUBSET UIFileSlots}

PlanFileSlots ==
    {"/r/top.txt", "/r/D/a.tar.pdf", "/r/D/notes", "/r/D/.a.png", "/r/D/end.",
     "/r/D/Thumbs.db", "/r/D/clip.MoV", "/r/D/x.constructor"}

PlanTrees == {TreeOf(files) : files \in SUBSET PlanFileSlots}

\* what the user types in the drive path and protected patterns fields
DrivePathInputs == {"", "/r"}

PatternInputs == {"gemini, ai, assistant, code, project", " Store ,,photo"}

\* the paths handed to the handlers: two directories of the trees and an
\* entry that is a file, a link that cannot be resolved, or missing
DrivePaths == {"/r", "/r/D", "/r/a"}

OpPool ==
    {[type |-> "move", source |-> "/r/a", destination |-> "/r/D/a"],
     [type |-> "move", source |-> "/r/D/a", destination |-> "/r/D/E/a/a"],
     [type |-> "delete", path |-> "/r/D"],
     [type |-> "rename", oldPath |-> "/r/D/E", newPath |-> "/r/E"],
     [type |-> "copy", source |-> "/r/a", destination |-> "/r/b"]}

OperationLists == UNION {[1..n -> OpPool] : n \in 0..MaxOps}

(***************************************************************************)
(* State: the filesystem; the calls of analyzeDrive in flight, each with   *)
(* the await it is suspended at; the latest reply of each IPC handler and, *)
(* for each, the call that produced it (its arguments, the filesystem, and *)
(* the history of the run).  analyzeReply and organizeReply are the reply  *)
(* to the latest analyze-drive call is analyzeReply, none while that call  *)
(* runs; duplicatesReply stays until the next reply replaces it, so that a *)
(* repeated run can be compared with the run before it.  organizeCall[id]  *)
(* is the organize-files call number id from the moment it is made and     *)
(* organizeReply[id] its reply once it has returned; both are forgotten    *)
(* when a later call is made after the return                              *)
(***************************************************************************)
NoReply == [success |-> FALSE, data |-> <<>>]

NoAnalyzeCall ==
    [drivePath |-> "", fs |-> EmptyMap, visited |-> <<>>, listings |-> <<>>]
NoDuplicatesCall == [drivePath |-> "", fs |-> EmptyMap, rerun |-> FALSE]
NoRun == [NewRun(<<>>, TRUE, EmptyMap) EXCEPT !.pc = "idle"]

\* a call that has returned and whose record is no longer kept
Forgotten == [NoRun EXCEPT !.pc = "forgotten"]

\* calls: the analyzeDrive calls of the main process, each with the point
\* it is suspended at; none has been made yet
NoCalls == [id \in 1..MaxCalls |-> NoTask]

InitReplies ==
    /\ analyzeReply = NoReply
    /\ analyzeCall = NoAnalyzeCall
    /\ duplicatesReply = NoReply
    /\ duplicatesCall = NoDuplicatesCall
    /\ organizeReply = [id \in 1..MaxRuns |-> NoReply]
    /\ organizeCall = [id \in 1..MaxRuns |-> NoRun]
    /\ calls = NoCalls

\* AppState after its constructor and the start script (nothing saved in
\* localStorage): the drive path field holds its default value
DefaultDrive == Root

DefaultSettings ==
    [dryRun |-> TRUE, autoBackup |-> TRUE,
     protectedPatterns |-> <<"gemini", "ai", "assistant", "code", "project">>]

NewAppState ==
    [currentDrive |-> DefaultDrive, analysis |-> NullAnalysis,
     isScanning |-> FALSE, isOrganizing |-> FALSE, settings |-> DefaultSettings]

\* ipc: the ipcRenderer.invoke calls the renderer awaits, per channel.
\* ui: a history of the renderer: the settings in force when the scan
\* behind appState.analysis was requested and the files that scan counted,
\* the latest plan startOrganization generated, whether a click found a
\* run under way, and the number of runs requested
InitRenderer ==
    /\ appState = NewAppState
    /\ ipc = [scan |-> <<>>, organize |-> <<>>, duplicates |-> <<>>]
    /\ ui = [scan |-> NullAnalysis, plan |-> NullAnalysis,
             ignored |-> FALSE, runs |-> 0]

ScanReplies == <<analyzeReply, analyzeCall, duplicatesReply, duplicatesCall>>

Organizer == <<organizeReply, organizeCall>>

Renderer == <<appState, ipc, ui>>

MainProcess == <<fs, ScanReplies, Organizer, calls>>

(***************************************************************************)
(* The main process.  A handler runs from one await to the next and then   *)
(* gives the event loop back: every action below is one such stretch, and  *)
(* the calls in flight take their turns in any order.  A call of fs-extra  *)
(* takes effect in the step that resumes from it.                          *)
(***************************************************************************)
\* the lowest slot of calls that holds no call
FreeSlot(id) ==
    /\ calls[id].pc = "idle"
    /\ \A j \in 1..(id - 1) : calls[j].pc # "idle"

\* no call of analyzeDrive is in flight
Alone == \A id \in DOMAIN calls : calls[id].pc = "idle"

\* call id resumes from its await of fs.pathExists
PathExistsResumed(id) ==
    /\ calls[id].pc = "pathExists"
    /\ calls' = [calls EXCEPT ![id] = pathExistsStep(fs, calls[id])]
    /\ UNCHANGED <<fs, ScanReplies, Organizer, Renderer>>

\* call id resumes from an await of its walk
ScanDirectoryResumed(id) ==
    /\ calls[id].pc = "scanDirectory"
    /\ calls' = [calls EXCEPT ![id] = scanDirectoryStep(fs, calls[id])]
    /\ UNCHANGED <<fs, ScanReplies, Organizer, Renderer>>

\* call id resumes from an await of its duplicate scan
ScanForDuplicatesResumed(id) ==
    /\ calls[id].pc = "findDuplicates"
    /\ calls' = [calls EXCEPT ![id] =
                    scanForDuplicatesStep(fs, calls[id], fileHashes(calls, id))]
    /\ UNCHANGED <<fs, ScanReplies, Organizer, Renderer>>

\* the record of an analyze-drive call that has returned on fsys
AnalyzeCallOf(t, fsys) ==
    [drivePath |-> t.drivePath, fs |-> fsys,
     visited |-> t.analysis.visited, listings |-> t.analysis.listings]

\* the record of a find-duplicates call that has returned on fsys; rerun:
\* the call before it had the same path and returned on the same filesystem
DuplicatesCallOf(t, fsys, previous) ==
    [drivePath |-> t.drivePath, fs |-> fsys,
     rerun |-> previous.drivePath = t.drivePath /\ previous.fs = fsys]

\* ipcMain.handle('analyze-drive') invoked while no call is in flight:
\* analyzeDrive runs to its first await
AnalyzeDriveIPC(drivePath) ==
    /\ Alone
    /\ calls' = [calls EXCEPT ![1] = NewTask("analyze-drive", drivePath)]
    /\ analyzeReply' = NoReply
    /\ analyzeCall' = NoAnalyzeCall
    /\ UNCHANGED <<fs, duplicatesReply, duplicatesCall, Organizer, Renderer>>

\* ipcMain.handle('find-duplicates') invoked while no call is in flight
FindDuplicatesIPC(drivePath) ==
    /\ Alone
    /\ calls' = [calls EXCEPT ![1] = NewTask("find-duplicates", drivePath)]
    /\ UNCHANGED <<fs, ScanReplies, Organizer, Renderer>>

\* the analyze-drive handler returns: its reply and the record of the call
AnalyzeDriveReturned(id) ==
    /\ calls[id].pc = "returned"
    /\ calls[id].channel = "analyze-drive"
    /\ analyzeReply' = calls[id].reply
    /\ analyzeCall' = AnalyzeCallOf(calls[id], fs)
    /\ calls' = [calls EXCEPT ![id] = NoTask]
    /\ UNCHANGED <<fs, duplicatesReply, duplicatesCall, Organizer, Renderer>>

\* the find-duplicates handler returns
FindDuplicatesReturned(id) ==
    /\ calls[id].pc = "returned"
    /\ calls[id].channel = "find-duplicates"
    /\ duplicatesReply' = calls[id].reply
    /\ duplicatesCall' = DuplicatesCallOf(calls[id], fs, duplicatesCall)
    /\ calls' = [calls EXCEPT ![id] = NoTask]
    /\ UNCHANGED <<fs, analyzeReply, analyzeCall, Organizer, Renderer>>

\* organize-files calls are numbered in the order they are made
NextRun(id) ==
    /\ organizeCall[id].pc = "idle"
    /\ \A j \in 1..(id - 1) : organizeCall[j].pc # "idle"

\* the awaits of an organize-files call: one for each operation and the
\* one of the handler
Awaits(operations) == Len(operations) + 1

\* the awaits of the organize-files calls in flight
RECURSIVE Pending(_)
Pending(ids) ==
    IF ids = {} THEN 0
    ELSE LET id == CHOOSE x \in ids : TRUE
         IN  (IF organizeCall[id].pc = "running"
              THEN Awaits(organizeCall[id].operations) ELSE 0) + Pending(ids \ {id})

\* call id begins; the calls that have returned are forgotten
RunsWith(id, run) ==
    [j \in DOMAIN organizeCall |->
        IF j = id THEN run
        ELSE IF organizeCall[j].pc = "returned" THEN Forgotten ELSE organizeCall[j]]

RepliesWithout(id) ==
    [j \in DOMAIN organizeReply |->
        IF j = id \/ organizeCall[j].pc = "returned" THEN NoReply ELSE organizeReply[j]]

\* ipcMain.handle('organize-files') invoked: organizeFiles runs to the
\* await of its first executeOperation.  MaxRuns calls are made, at any
\* moments, as long as the calls in flight have no more awaits between
\* them than one call of MaxOps operations
OrganizeFilesIPC(id, operations, dryRun) ==
    /\ NextRun(id)
    /\ Pending(DOMAIN organizeCall) + Awaits(operations) <= MaxOps + 1
    /\ organizeCall' = RunsWith(id, NewRun(operations, dryRun, fs))
    /\ organizeReply' = RepliesWithout(id)
    /\ UNCHANGED <<fs, ScanReplies, calls, Renderer>>

\* call id resumes from its await of executeOperation: the operation has
\* acted on the filesystem as it is now and is entered in the results
ExecuteOperationResumed(id) ==
    /\ organizeCall[id].pc = "running"
    /\ organizeCall[id].todo # <<>>
    /\ LET r == organizeLoop(organizeCall[id], fs)
       IN  /\ fs' = r.fs
           /\ organizeCall' = [organizeCall EXCEPT ![id] = r.call]
    /\ UNCHANGED <<ScanReplies, organizeReply, calls, Renderer>>

\* the loop of call id is over and the organize-files handler returns;
\* organizeFiles raises nothing itself
OrganizeFilesReturned(id) ==
    /\ organizeCall[id].pc = "running"
    /\ organizeCall[id].todo = <<>>
    /\ organizeReply' = [organizeReply EXCEPT ![id] =
                             [success |-> TRUE, data |-> organizeFiles(organizeCall[id])]]
    /\ organizeCall' = [organizeCall EXCEPT ![id] = [@ EXCEPT !.pc = "returned",
                                                              !.left = fs]]
    /\ UNCHANGED <<fs, ScanReplies, calls, Renderer>>

InitScan == fs \in Trees /\ InitReplies /\ InitRenderer

\* analyze-drive calls made one after the other
NextScan ==
    \/ \E drivePath \in DrivePaths : AnalyzeDriveIPC(drivePath)
    \/ \E id \in 1..MaxCalls : PathExistsResumed(id)
    \/ \E id \in 1..MaxCalls : ScanDirectoryResumed(id)
    \/ \E id \in 1..MaxCalls : ScanForDuplicatesResumed(id)
    \/ \E id \in 1..MaxCalls : AnalyzeDriveReturned(id)

SpecScan == InitScan /\ [][NextScan]_vars

\* find-duplicates calls made one after the other
NextDuplicates ==
    \/ \E drivePath \in DrivePaths : FindDuplicatesIPC(drivePath)
    \/ \E id \in 1..MaxCalls : PathExistsResumed(id)
    \/ \E id \in 1..MaxCalls : ScanDirectoryResumed(id)
    \/ \E id \in 1..MaxCalls : ScanForDuplicatesResumed(id)
    \/ \E id \in 1..MaxCalls : FindDuplicatesReturned(id)

SpecDuplicates == InitScan /\ [][NextDuplicates]_vars

InitExec == fs \in ExecTrees /\ InitReplies /\ InitRenderer

NextExec ==
    \/ \E id \in 1..MaxRuns, operations \in OperationLists, dryRun \in BOOLEAN :
          OrganizeFilesIPC(id, operations, dryRun)
    \/ \E id \in 1..MaxRuns : ExecuteOperationResumed(id)
    \/ \E id \in 1..MaxRuns : OrganizeFilesReturned(id)

SpecExec == InitExec /\ [][NextExec]_vars

InitNamed == fs \in NamedTrees /\ InitReplies /\ InitRenderer

NextNamed ==
    \/ \E drivePath \in DrivePaths : AnalyzeDriveIPC(drivePath)
    \/ \E id \in 1..MaxCalls : PathExistsResumed(id)
    \/ \E id \in 1..MaxCalls : ScanDirectoryResumed(id)
    \/ \E id \in 1..MaxCalls : ScanForDuplicatesResumed(id)
    \/ \E id \in 1..MaxCalls : AnalyzeDriveReturned(id)

SpecNamed == InitNamed /\ [][NextNamed]_vars

(***************************************************************************)
(* Renderer events.  An async method is two actions, one up to its await   *)
(* and one from the reply on; the handler of the main process runs between *)
(* the two, one await at a time, next to whatever else is in flight        *)
(***************************************************************************)
RemoveAt(seq, i) == SubSeq(seq, 1, i - 1) \o SubSeq(seq, i + 1, Len(seq))

\* drivePathInput 'change'
DrivePathChange(value) ==
    /\ appState' = [appState EXCEPT !.currentDrive = value]
    /\ UNCHANGED <<ipc, ui, MainProcess>>

\* dryRunToggle 'change': updateSettings({dryRun})
DryRunToggle(checked) ==
    /\ appState' = [appState EXCEPT !.settings.dryRun = checked]
    /\ UNCHANGED <<ipc, ui, MainProcess>>

\* autoBackupToggle 'change': updateSettings({autoBackup}); the setting is
\* stored and read nowhere else
AutoBackupToggle(checked) ==
    /\ appState' = [appState EXCEPT !.settings.autoBackup = checked]
    /\ UNCHANGED <<ipc, ui, MainProcess>>

\* saveSettings: updateSettings({protectedPatterns})
saveSettings(value) ==
    /\ appState' = [appState EXCEPT !.settings.protectedPatterns = parsePatterns(value)]
    /\ UNCHANGED <<ipc, ui, MainProcess>>

\* startScan up to the await of ipcRenderer.invoke('analyze-drive')
startScan ==
    /\ IF ~Truthy(appState.currentDrive) \/ appState.isScanning
       THEN UNCHANGED <<appState, ipc>>
       ELSE /\ appState' = [appState EXCEPT !.isScanning = TRUE]
            /\ ipc' = [ipc EXCEPT !.scan = Append(@,
                          [stage |-> "invoked", drivePath |-> appState.currentDrive,
                           patterns |-> appState.settings.protectedPatterns,
                           reply |-> NoReply, visited |-> <<>>, call |-> 0])]
    /\ UNCHANGED <<ui, MainProcess>>

\* the analyze-drive handler takes up an invoke of the renderer
AnalyzeDriveInvoked ==
    \E i \in DOMAIN ipc.scan, id \in 1..MaxCalls :
        /\ ipc.scan[i].stage = "invoked"
        /\ FreeSlot(id)
        /\ calls' = [calls EXCEPT ![id] = NewTask("analyze-drive", ipc.scan[i].drivePath)]
        /\ analyzeReply' = NoReply
        /\ analyzeCall' = NoAnalyzeCall
        /\ ipc' = [ipc EXCEPT !.scan[i] = [@ EXCEPT !.stage = "running", !.call = id]]
        /\ UNCHANGED <<fs, duplicatesReply, duplicatesCall, Organizer, appState, ui>>

\* the analyze-drive handler returns and its reply reaches the renderer
AnalyzeDriveReplied ==
    \E i \in DOMAIN ipc.scan :
        LET id == ipc.scan[i].call IN
        /\ ipc.scan[i].stage = "running"
        /\ calls[id].pc = "returned"
        /\ analyzeReply' = calls[id].reply
        /\ analyzeCall' = AnalyzeCallOf(calls[id], fs)
        /\ calls' = [calls EXCEPT ![id] = NoTask]
        /\ ipc' = [ipc EXCEPT !.scan[i] = [@ EXCEPT !.stage = "replied",
                                                    !.reply = calls[id].reply,
                                                    !.visited = calls[id].analysis.visited]]
        /\ UNCHANGED <<fs, duplicatesReply, duplicatesCall, Organizer, appState, ui>>

\* startScan from the reply on: the try block after the await and finally
startScanResumed ==
    \E i \in DOMAIN ipc.scan :
        LET result == ipc.scan[i].reply IN
        /\ ipc.scan[i].stage = "replied"
        /\ appState' = [appState EXCEPT
               !.analysis = IF result.success THEN result.data ELSE @,
               !.isScanning = FALSE]
        /\ ui' = IF result.success
                 THEN [ui EXCEPT !.scan = [patterns |-> ipc.scan[i].patterns,
                                           visited |-> ipc.scan[i].visited]]
                 ELSE ui
        /\ ipc' = [ipc EXCEPT !.scan = RemoveAt(@, i)]
        /\ UNCHANGED MainProcess

\* UIManager.findDuplicates up to the await of
\* ipcRenderer.invoke('find-duplicates'); no flag holds a click back while a
\* scan or another search runs.  A search is begun while it leaves a slot
\* of calls to the scan
findDuplicatesUI ==
    /\ Len(ipc.duplicates) < MaxCalls - 1
    /\ IF ~Truthy(appState.currentDrive)
       THEN UNCHANGED ipc
       ELSE ipc' = [ipc EXCEPT !.duplicates = Append(@,
                       [stage |-> "invoked", drivePath |-> appState.currentDrive,
                        reply |-> NoReply, call |-> 0])]
    /\ UNCHANGED <<appState, ui, MainProcess>>

\* the find-duplicates handler takes up an invoke of the renderer
FindDuplicatesInvoked ==
    \E i \in DOMAIN ipc.duplicates, id \in 1..MaxCalls :
        /\ ipc.duplicates[i].stage = "invoked"
        /\ FreeSlot(id)
        /\ calls' = [calls EXCEPT ![id] =
                        NewTask("find-duplicates", ipc.duplicates[i].drivePath)]
        /\ duplicatesReply' = NoReply
        /\ duplicatesCall' = NoDuplicatesCall
        /\ ipc' = [ipc EXCEPT !.duplicates[i] = [@ EXCEPT !.stage = "running",
                                                          !.call = id]]
        /\ UNCHANGED <<fs, analyzeReply, analyzeCall, Organizer, appState, ui>>

\* the find-duplicates handler returns and its reply reaches the renderer
FindDuplicatesReplied ==
    \E i \in DOMAIN ipc.duplicates :
        LET id == ipc.duplicates[i].call IN
        /\ ipc.duplicates[i].stage = "running"
        /\ calls[id].pc = "returned"
        /\ duplicatesReply' = calls[id].reply
        /\ duplicatesCall' = DuplicatesCallOf(calls[id], fs, duplicatesCall)
        /\ calls' = [calls EXCEPT ![id] = NoTask]
        /\ ipc' = [ipc EXCEPT !.duplicates[i] = [@ EXCEPT !.stage = "replied",
                                                          !.reply = calls[id].reply]]
        /\ UNCHANGED <<fs, analyzeReply, analyzeCall, Organizer, appState, ui>>

\* UIManager.findDuplicates from the reply on: the list or the error is
\* shown, appState stays as it is
findDuplicatesUIResumed ==
    \E i \in DOMAIN ipc.duplicates :
        /\ ipc.duplicates[i].stage = "replied"
        /\ ipc' = [ipc EXCEPT !.duplicates = RemoveAt(@, i)]
        /\ UNCHANGED <<appState, ui, MainProcess>>

\* startOrganization without the isOrganizing check
startOrganizationUnguarded ==
    /\ appState.analysis # NullAnalysis
    /\ ui.runs < MaxRuns
    /\ LET plan == generateOperations(appState.analysis) IN
       /\ ui' = [ui EXCEPT !.plan = [analysis |-> appState.analysis,
                                     threw |-> plan.threw,
                                     operations |-> plan.operations],
                           !.runs = IF plan.threw THEN @ ELSE @ + 1]
       /\ IF plan.threw THEN UNCHANGED <<appState, ipc>>
          ELSE /\ appState' = [appState EXCEPT !.isOrganizing = TRUE]
               /\ ipc' = [ipc EXCEPT !.organize = Append(@,
                             [stage |-> "invoked", operations |-> plan.operations,
                              dryRun |-> appState.settings.dryRun,
                              reply |-> NoReply, call |-> 0])]
    /\ UNCHANGED MainProcess

\* startOrganization up to the await of ipcRenderer.invoke('organize-files');
\* when generateOperations raises, catch and finally run at once and
\* isOrganizing is false again
startOrganization ==
    /\ appState.analysis # NullAnalysis
    /\ IF appState.isOrganizing
       THEN /\ ui' = [ui EXCEPT !.ignored = TRUE]
            /\ UNCHANGED <<appState, ipc>>
       ELSE /\ ui.runs < MaxRuns
            /\ LET plan == generateOperations(appState.analysis) IN
               /\ ui' = [ui EXCEPT !.plan = [analysis |-> appState.analysis,
                                             threw |-> plan.threw,
                                             operations |-> plan.operations],
                                   !.runs = IF plan.threw THEN @ ELSE @ + 1]
               /\ IF plan.threw THEN UNCHANGED <<appState, ipc>>
                  ELSE /\ appState' = [appState EXCEPT !.isOrganizing = TRUE]
                       /\ ipc' = [ipc EXCEPT !.organize = Append(@,
                                     [stage |-> "invoked", operations |-> plan.operations,
                                      dryRun |-> appState.settings.dryRun,
                                      reply |-> NoReply, call |-> 0])]
    /\ UNCHANGED MainProcess

\* the organize-files handler takes up an invoke of the renderer
OrganizeFilesInvoked ==
    \E i \in DOMAIN ipc.organize, id \in 1..MaxRuns :
        /\ ipc.organize[i].stage = "invoked"
        /\ NextRun(id)
        /\ organizeCall' = RunsWith(id, NewRun(ipc.organize[i].operations,
                                               ipc.organize[i].dryRun, fs))
        /\ organizeReply' = RepliesWithout(id)
        /\ ipc' = [ipc EXCEPT !.organize[i] = [@ EXCEPT !.stage = "running",
                                                        !.call = id]]
        /\ UNCHANGED <<fs, ScanReplies, calls, appState, ui>>

\* the organize-files handler returns and its reply reaches the renderer
OrganizeFilesReplied ==
    \E i \in DOMAIN ipc.organize :
        LET id == ipc.organize[i].call IN
        /\ ipc.organize[i].stage = "running"
        /\ organizeCall[id].pc = "running"
        /\ organizeCall[id].todo = <<>>
        /\ organizeReply' = [organizeReply EXCEPT ![id] =
                                 [success |-> TRUE,
                                  data |-> organizeFiles(organizeCall[id])]]
        /\ organizeCall' = [organizeCall EXCEPT ![id] = [@ EXCEPT !.pc = "returned",
                                                                  !.left = fs]]
        /\ ipc' = [ipc EXCEPT !.organize[i] = [@ EXCEPT !.stage = "replied",
                                                        !.reply = organizeReply'[id]]]
        /\ UNCHANGED <<fs, ScanReplies, calls, appState, ui>>

\* startOrganization from the reply on: the rest of the try, and finally
startOrganizationResumed ==
    \E i \in DOMAIN ipc.organize :
        /\ ipc.organize[i].stage = "replied"
        /\ appState' = [appState EXCEPT !.isOrganizing = FALSE]
        /\ ipc' = [ipc EXCEPT !.organize = RemoveAt(@, i)]
        /\ ui' = [ui EXCEPT !.ignored = FALSE]
        /\ UNCHANGED MainProcess

InitUI == fs \in UITrees /\ InitReplies /\ InitRenderer

\* scans and organize runs, in dry run mode or not, with the backup
\* setting switched at any moment
NextUI ==
    \/ \E checked \in BOOLEAN : DryRunToggle(checked)
    \/ \E checked \in BOOLEAN : AutoBackupToggle(checked)
    \/ startScan
    \/ AnalyzeDriveInvoked
    \/ \E id \in 1..MaxCalls : PathExistsResumed(id)
    \/ \E id \in 1..MaxCalls : ScanDirectoryResumed(id)
    \/ \E id \in 1..MaxCalls : ScanForDuplicatesResumed(id)
    \/ AnalyzeDriveReplied
    \/ startScanResumed
    \/ startOrganization
    \/ OrganizeFilesInvoked
    \/ \E id \in 1..MaxRuns : ExecuteOperationResumed(id)
    \/ OrganizeFilesReplied
    \/ startOrganizationResumed

SpecUI == InitUI /\ [][NextUI]_vars

\* scans and duplicate searches, in flight together, under the drive path
\* and the settings the user enters
NextSettings ==
    \/ \E value \in DrivePathInputs : DrivePathChange(value)
    \/ \E value \in PatternInputs : saveSettings(value)
    \/ \E checked \in BOOLEAN : AutoBackupToggle(checked)
    \/ findDuplicatesUI
    \/ FindDuplicatesInvoked
    \/ FindDuplicatesReplied
    \/ findDuplicatesUIResumed
    \/ startScan
    \/ AnalyzeDriveInvoked
    \/ \E id \in 1..MaxCalls : PathExistsResumed(id)
    \/ \E id \in 1..MaxCalls : ScanDirectoryResumed(id)
    \/ \E id \in 1..MaxCalls : ScanForDuplicatesResumed(id)
    \/ AnalyzeDriveReplied
    \/ startScanResumed

SpecSettings == InitUI /\ [][NextSettings]_vars

InitPlan == fs \in PlanTrees /\ InitReplies /\ InitRenderer

\* scans and organize runs under the settings the page loads with
NextPlan ==
    \/ startScan
    \/ AnalyzeDriveInvoked
    \/ \E id \in 1..MaxCalls : PathExistsResumed(id)
    \/ \E id \in 1..MaxCalls : ScanDirectoryResumed(id)
    \/ \E id \in 1..MaxCalls : ScanForDuplicatesResumed(id)
    \/ AnalyzeDriveReplied
    \/ startScanResumed
    \/ startOrganization
    \/ OrganizeFilesInvoked
    \/ \E id \in 1..MaxRuns : ExecuteOperationResumed(id)
    \/ OrganizeFilesReplied
    \/ startOrganizationResumed

SpecPlan == InitPlan /\ [][NextPlan]_vars

(***************************************************************************)
(* Calls of analyzeDrive in flight together.  The handlers of              *)
(* analyze-drive and find-duplicates both call analyzeDrive; nothing holds *)
(* one invocation back while another runs, so the event loop resumes       *)
(* whichever call has its I/O done.  MaxCalls calls are made, at any       *)
(* moments, and calls[id] keeps the reply of call id.                      *)
(***************************************************************************)
\* the handler of analyze-drive calls analyzeDrive, which runs to its
\* first await
AnalyzeDriveBegun(id, drivePath) ==
    /\ FreeSlot(id)
    /\ calls' = [calls EXCEPT ![id] = NewTask("analyze-drive", drivePath)]
    /\ UNCHANGED <<fs, ScanReplies, Organizer, Renderer>>

\* the handler of find-duplicates does the same
FindDuplicatesBegun(id, drivePath) ==
    /\ FreeSlot(id)
    /\ calls' = [calls EXCEPT ![id] = NewTask("find-duplicates", drivePath)]
    /\ UNCHANGED <<fs, ScanReplies, Organizer, Renderer>>

\* the trees the calls in flight together run on
AsyncTrees == {t \in ExecTrees : DOMAIN t \subseteq {"/r", "/r/a", "/r/D", "/r/D/a"}}

InitAsync == fs \in AsyncTrees /\ InitReplies /\ InitRenderer

NextAsync ==
    \/ \E id \in 1..MaxCalls, drivePath \in DrivePaths : AnalyzeDriveBegun(id, drivePath)
    \/ \E id \in 1..MaxCalls, drivePath \in DrivePaths : FindDuplicatesBegun(id, drivePath)
    \/ \E id \in 1..MaxCalls : PathExistsResumed(id)
    \/ \E id \in 1..MaxCalls : ScanDirectoryResumed(id)
    \/ \E id \in 1..MaxCalls : ScanForDuplicatesResumed(id)

SpecAsync == InitAsync /\ [][NextAsync]_vars

(***************************************************************************)
(* Properties of the operation executor (SpecExec)                         *)
(***************************************************************************)
OpsOfType(operations, type) ==
    SelectSeq(operations, LAMBDA op : Field(op, "type") = type)

RECURSIVE FailedOps(_, _)
FailedOps(operations, outcomes) ==
    IF operations = <<>> THEN <<>>
    ELSE (IF Head(outcomes) THEN <<>> ELSE <<Head(operations)>>)
             \o FailedOps(Tail(operations), Tail(outcomes))

SummaryAddsUp(call, reply) ==
    reply.success =>
        /\ reply.data.summary.successful + reply.data.summary.failed
               = reply.data.summary.total
        /\ reply.data.summary.total = Len(call.operations)

\* C1: after any organizeFiles run, whatever the operations and the mode,
\* successful + failed = total and total is the number of input operations
C1_SummaryAddsUp ==
    \A id \in DOMAIN organizeCall :
        SummaryAddsUp(organizeCall[id], organizeReply[id])

SummaryWitness(call, reply) ==
    /\ reply.success /\ ~call.dryRun
    /\ reply.data.summary.successful >= 1
    /\ reply.data.summary.failed >= 2
    /\ \E i, j \in 1..Len(call.operations) :
          /\ call.operations[i].type = "copy"
          /\ call.operations[j].type \in {"move", "delete", "rename"}
          /\ ~call.outcomes[j]

\* a real run over an unknown operation type and a failing filesystem
\* operation next to a successful one
C1_Witness ==
    \E id \in DOMAIN organizeCall :
        SummaryWitness(organizeCall[id], organizeReply[id])

EveryOperationAttempted(call, reply) ==
    call.pc = "returned" =>
        /\ reply.success
        /\ call.attempted = call.operations
        /\ Len(call.outcomes) = Len(call.operations)
        /\ LET failedOps == FailedOps(call.operations, call.outcomes)
           IN  /\ reply.data.summary.failed = Len(failedOps)
               /\ Len(reply.data.errors) = Len(failedOps)
               /\ \A k \in 1..Len(failedOps) :
                     reply.data.errors[k].operation = Field(failedOps[k], "type")

\* C2: every input operation is handed to executeOperation exactly once,
\* in input order, whatever the earlier ones did; each failure adds one
\* entry to errors and one to summary.failed; the call itself succeeds
C2_EveryOperationAttempted ==
    \A id \in DOMAIN organizeCall :
        EveryOperationAttempted(organizeCall[id], organizeReply[id])

AttemptedWitness(call, reply) ==
    /\ reply.success
    /\ Len(call.operations) = MaxOps
    /\ ~call.outcomes[1]
    /\ call.outcomes[MaxOps]
    /\ call.operations[1].type # "copy"
    /\ ~call.dryRun

\* a failed operation followed by a successful one, and a failed unknown
\* type in a dry run followed by another operation
C2_Witness ==
    \E id \in DOMAIN organizeCall :
        AttemptedWitness(organizeCall[id], organizeReply[id])

DryRunLedger(call, reply) ==
    (reply.success /\ call.dryRun) =>
        /\ reply.data.moved =
               [i \in 1..Len(OpsOfType(call.operations, "move")) |->
                   [source |-> OpsOfType(call.operations, "move")[i].source,
                    destination |-> OpsOfType(call.operations, "move")[i].destination]]
        /\ reply.data.deleted =
               [i \in 1..Len(OpsOfType(call.operations, "delete")) |->
                   OpsOfType(call.operations, "delete")[i].path]
        /\ reply.data.renamed =
               [i \in 1..Len(OpsOfType(call.operations, "rename")) |->
                   [oldPath |-> OpsOfType(call.operations, "rename")[i].oldPath,
                    newPath |-> OpsOfType(call.operations, "rename")[i].newPath]]
        /\ reply.data.summary.total = Len(call.operations)

\* a step of the loop of a dry run
DryRunStep(id) ==
    /\ organizeCall[id].pc = "running"
    /\ organizeCall[id].dryRun
    /\ organizeCall'[id].attempted # organizeCall[id].attempted

\* C3: a dry run leaves the filesystem as it was and still records every
\* Move in moved, every Delete in deleted, every Rename in renamed, with
\* total the input length
C3_DryRunTouchesNothing ==
    /\ [](\A id \in DOMAIN organizeCall :
             DryRunLedger(organizeCall[id], organizeReply[id]))
    /\ [][\A id \in DOMAIN organizeCall : DryRunStep(id) => fs' = fs]_vars

DryRunWitness(call, reply) ==
    /\ reply.success /\ call.dryRun
    /\ \E i, j \in 1..Len(call.operations) :
          /\ call.operations[i].type = "delete"
          /\ HasEntry(call.fs, call.operations[i].path)
          /\ call.operations[j].type = "move"
          /\ ~move(call.fs, call.operations[j].source,
                   call.operations[j].destination).threw

\* a dry run of a delete and a move that a real run would have carried out
C3_Witness ==
    \E id \in DOMAIN organizeCall :
        DryRunWitness(organizeCall[id], organizeReply[id])

DeleteMissingFails(call, reply) ==
    (/\ reply.success /\ ~call.dryRun
     /\ Len(call.operations) = 1
     /\ call.operations[1].type = "delete"
     /\ ~HasEntry(call.fs, call.operations[1].path)) =>
        /\ reply.data.summary.total = 1
        /\ reply.data.summary.failed = 1
        /\ Len(reply.data.errors) = 1

\* C4: a real run of the single operation Delete of a path that does not
\* exist reports total = 1, failed = 1 and exactly one error entry
C4_DeleteMissingFails ==
    \A id \in DOMAIN organizeCall :
        DeleteMissingFails(organizeCall[id], organizeReply[id])

ErrorsCarryPath(call, reply) ==
    reply.success =>
        LET failedOps == FailedOps(call.operations, call.outcomes)
        IN  \A k \in 1..Len(failedOps) :
                LET op == failedOps[k]
                    entry == reply.data.errors[k]
                IN  op.type \in {"move", "delete", "rename"} =>
                        /\ entry.operation = op.type
                        /\ entry.path # Undefined
                        /\ entry.path = CASE op.type = "move" -> op.source
                                          [] op.type = "delete" -> op.path
                                          [] op.type = "rename" -> op.oldPath

\* C19: the error entry of every failed Move, Delete or Rename carries the
\* type of the operation and a defined path of it: source for a Move, path
\* for a Delete, oldPath for a Rename
C19_ErrorsCarryPath ==
    \A id \in DOMAIN organizeCall :
        ErrorsCarryPath(organizeCall[id], organizeReply[id])

RECURSIVE SucceededOps(_, _)
SucceededOps(operations, outcomes) ==
    IF operations = <<>> THEN <<>>
    ELSE (IF Head(outcomes) THEN <<Head(operations)>> ELSE <<>>)
             \o SucceededOps(Tail(operations), Tail(outcomes))

\* the entry executeOperation pushes to the bucket of a supported type
LedgerEntry(op) ==
    CASE op.type = "move" -> [source |-> op.source, destination |-> op.destination]
      [] op.type = "delete" -> op.path
      [] op.type = "rename" -> [oldPath |-> op.oldPath, newPath |-> op.newPath]

LedgerEntries(operations) == [k \in 1..Len(operations) |-> LedgerEntry(operations[k])]

LedgerAgreesWithSummary(call, reply) ==
    reply.success =>
        LET done == SucceededOps(call.operations, call.outcomes)
            failedOps == FailedOps(call.operations, call.outcomes)
        IN  /\ Len(reply.data.moved) + Len(reply.data.deleted) + Len(reply.data.renamed)
                   = reply.data.summary.successful
            /\ Len(reply.data.errors) = reply.data.summary.failed
            /\ reply.data.moved = LedgerEntries(OpsOfType(done, "move"))
            /\ reply.data.deleted = LedgerEntries(OpsOfType(done, "delete"))
            /\ reply.data.renamed = LedgerEntries(OpsOfType(done, "rename"))
            /\ Len(reply.data.errors) = Len(failedOps)
            /\ \A k \in 1..Len(failedOps) :
                  reply.data.errors[k].operation = Field(failedOps[k], "type")
            /\ Len(reply.data.moved) + Len(reply.data.deleted) + Len(reply.data.renamed)
                   + Len(reply.data.errors) = Len(call.operations)

\* C22: after any organizeFiles run the three buckets together hold
\* summary.successful entries and errors holds summary.failed; each bucket
\* is, in input order, the operations of its type that executeOperation
\* completed, errors is, in input order, the operations it threw on, and
\* no operation is left out or recorded twice
C22_LedgerAgreesWithSummary ==
    \A id \in DOMAIN organizeCall :
        LedgerAgreesWithSummary(organizeCall[id], organizeReply[id])

LedgerWitness(call, reply) ==
    /\ reply.success /\ ~call.dryRun
    /\ Len(call.operations) = 3
    /\ Len(reply.data.moved) = 2
    /\ reply.data.moved[1] # reply.data.moved[2]
    /\ Len(reply.data.errors) = 1
    /\ ~call.outcomes[2]

\* a real run that moved two different entries and failed on a third
\* operation made before the second move
C22_Witness ==
    \E id \in DOMAIN organizeCall :
        LedgerWitness(organizeCall[id], organizeReply[id])

(***************************************************************************)
(* Properties of the analysis (SpecScan)                                   *)
(***************************************************************************)
Scanned == analyzeReply.success

Scan == analyzeReply.data

Tree == analyzeCall.fs

ScanRoot == analyzeCall.drivePath

Range(seq) == {seq[i] : i \in DOMAIN seq}

Below(p, dir) == p # dir /\ IsUnder(p, dir)

\* the directories from dir down to the parent of p
Between(p, dir) == {a \in Ancestors(p) : IsUnder(a, dir)}

\* the files below dir whose stat succeeds: every directory on the way can
\* be listed and the entry itself is a file
StatableFiles(tree, dir) ==
    {p \in DOMAIN tree :
        /\ Below(p, dir)
        /\ tree[p].kind = "file"
        /\ \A a \in Between(p, dir) : tree[a].kind = "dir" /\ tree[a].readable}

FirstComponent(rel) ==
    LET k == IndexFrom(rel, "/", 1)
    IN  IF k = 0 THEN rel ELSE SubSeq(rel, 1, k - 1)

RestComponents(rel) ==
    LET k == IndexFrom(rel, "/", 1)
    IN  IF k = 0 THEN "" ELSE SubSeq(rel, k + 1, Len(rel))

\* depth-first order of two relative paths under listings sorted by name
RECURSIVE RelBefore(_, _)
RelBefore(a, b) ==
    IF a = "" \/ b = "" THEN FALSE
    ELSE IF FirstComponent(a) = FirstComponent(b)
    THEN RelBefore(RestComponents(a), RestComponents(b))
    ELSE StrLess(FirstComponent(a), FirstComponent(b))

VisitedBefore(p, q) == RelBefore(Tail(p), Tail(q))

SameFingerprint(tree, p, q) ==
    Basename(p) = Basename(q) /\ tree[p].size = tree[q].size

RECURSIVE SumSizes(_, _)
SumSizes(tree, S) ==
    IF S = {} THEN 0
    ELSE LET p == CHOOSE x \in S : TRUE
         IN  tree[p].size + SumSizes(tree, S \ {p})

\* C5: for every fingerprint carried by N files the duplicate scan stats,
\* there are exactly N-1 records, one per later-visited file, all naming
\* the first-visited file as original; no duplicate is ever an original
C5_OneRecordPerLaterCopy ==
    Scanned =>
        LET dups == Scan.duplicates
            files == StatableFiles(Tree, ScanRoot)
            class(p) == {q \in files : SameFingerprint(Tree, p, q)}
            first(p) == CHOOSE q \in class(p) :
                            \A x \in class(p) \ {q} : VisitedBefore(q, x)
        IN  /\ \A i \in DOMAIN dups :
                  /\ dups[i].duplicate \in files
                  /\ dups[i].original = first(dups[i].duplicate)
                  /\ dups[i].original # dups[i].duplicate
            /\ \A i, j \in DOMAIN dups :
                  /\ i # j => dups[i].duplicate # dups[j].duplicate
                  /\ dups[i].duplicate # dups[j].original
            /\ \A p \in files :
                  Cardinality({i \in DOMAIN dups : dups[i].duplicate \in class(p)})
                      = Cardinality(class(p)) - 1

\* three files of one fingerprint: two records with the same original
C5_Witness ==
    /\ Scanned
    /\ \E i, j \in DOMAIN Scan.duplicates :
          /\ i # j
          /\ Scan.duplicates[i].original = Scan.duplicates[j].original

\* names and sizes whose keys are compared pair by pair
KeyNames == {"a", "a_1", "a_1_1", "a_11"}
KeySizes == {1, 11, 111}

\* C6: a record is produced only for a file that an earlier-visited file
\* matches in both name and size, and the key separates any two files that
\* differ in name or in size
C6_NameAndSizeBoth ==
    Scanned =>
        LET dups == Scan.duplicates
            files == StatableFiles(Tree, ScanRoot)
        IN  /\ \A i \in DOMAIN dups :
                  /\ dups[i].original \in files
                  /\ dups[i].duplicate \in files
                  /\ SameFingerprint(Tree, dups[i].original, dups[i].duplicate)
                  /\ VisitedBefore(dups[i].original, dups[i].duplicate)
            /\ \A p, q \in files :
                  HashKey(Basename(p), Tree[p].size) = HashKey(Basename(q), Tree[q].size)
                      => SameFingerprint(Tree, p, q)
            /\ \A n1, n2 \in KeyNames : \A s1, s2 \in KeySizes :
                  HashKey(n1, s1) = HashKey(n2, s2) => n1 = n2 /\ s1 = s2

\* a scan over two files of one name and different sizes and two files of
\* one size and different names
C6_Witness ==
    /\ Scanned
    /\ Scan.duplicates = <<>>
    /\ \E p, q \in StatableFiles(Tree, ScanRoot) :
          Basename(p) = Basename(q) /\ Tree[p].size # Tree[q].size
    /\ \E p, q \in StatableFiles(Tree, ScanRoot) :
          Basename(p) # Basename(q) /\ Tree[p].size = Tree[q].size

\* C7: a find-duplicates run that repeats the previous one on the unchanged
\* tree returns the pairings the previous one returned
C7_RerunSamePairings ==
    [][duplicatesCall'.rerun => duplicatesReply' = duplicatesReply]_vars

\* a repeated run that reported duplicates
C7_Witness ==
    /\ duplicatesCall.rerun
    /\ duplicatesReply.success
    /\ duplicatesReply.data # <<>>

\* C8: a stat failure on an entry, at any depth, is recorded once, the
\* entry is not counted, and every sibling of the entry is still processed:
\* sibling files counted, sibling directories listed
C8_StatFailureIsolated ==
    Scanned =>
        \A x \in DOMAIN Tree :
            (/\ Below(x, ScanRoot)
             /\ IsLink(Tree[x])
             /\ \A a \in Between(x, ScanRoot) : Tree[a].kind = "dir" /\ Tree[a].readable)
            => /\ Cardinality({i \in DOMAIN Scan.errors : Scan.errors[i].path = x}) = 1
               /\ x \notin Range(analyzeCall.visited)
               /\ \A y \in DOMAIN Tree :
                     (y # x /\ Dirname(y) = Dirname(x)) =>
                         /\ Tree[y].kind = "file" => y \in Range(analyzeCall.visited)
                         /\ Tree[y].kind = "dir" => y \in Range(analyzeCall.listings)

\* every path the report or the history of the walk mentions
Mentioned ==
    Range(analyzeCall.visited) \cup Range(analyzeCall.listings)
        \cup {Scan.folders[i].path : i \in DOMAIN Scan.folders}
        \cup {Scan.errors[i].path : i \in DOMAIN Scan.errors}
        \cup {Scan.largeFiles[i].path : i \in DOMAIN Scan.largeFiles}
        \cup {Scan.systemFiles[i].path : i \in DOMAIN Scan.systemFiles}
        \cup {Scan.protectedFiles[i].path : i \in DOMAIN Scan.protectedFiles}

\* C9: when the listing of a directory D other than the root fails, D is
\* recorded in errors, nothing below D is visited, the siblings of D are
\* processed, and the analysis returns a report
C9_ListingFailureIsolated ==
    (analyzeCall.drivePath # "" /\ ~ReaddirFails(Tree, ScanRoot)) =>
        /\ analyzeReply.success
        /\ \A D \in Range(analyzeCall.listings) :
              (D # ScanRoot /\ ReaddirFails(Tree, D)) =>
                  /\ \E i \in DOMAIN Scan.errors : Scan.errors[i].path = D
                  /\ \A p \in Mentioned : ~Below(p, D)
                  /\ \A y \in DOMAIN Tree :
                        (y # D /\ Dirname(y) = Dirname(D)) =>
                            /\ Tree[y].kind = "file" => y \in Range(analyzeCall.visited)
                            /\ Tree[y].kind = "dir" => y \in Range(analyzeCall.listings)
                            /\ IsLink(Tree[y]) =>
                                  \E i \in DOMAIN Scan.errors : Scan.errors[i].path = y

\* a nested directory that cannot be listed, with an entry below it and a
\* sibling file
C9_Witness ==
    /\ Scanned
    /\ \E D \in Range(analyzeCall.listings) :
          /\ Dirname(D) # ScanRoot /\ D # ScanRoot
          /\ ReaddirFails(Tree, D)
          /\ \E p \in DOMAIN Tree : Below(p, D)
          /\ \E y \in DOMAIN Tree :
                y # D /\ Dirname(y) = Dirname(D) /\ Tree[y].kind = "file"

\* C10: fileCount is the number of files of the whole tree whose stat
\* succeeds and totalSize the sum of their sizes
C10_CountsEveryStatableFile ==
    Scanned =>
        /\ Scan.metadata.fileCount = Cardinality(StatableFiles(Tree, ScanRoot))
        /\ Scan.metadata.totalSize = SumSizes(Tree, StatableFiles(Tree, ScanRoot))

\* a directory the profiler can profile: it can be listed and every entry
\* in it can be stat'ed
Profilable(tree, D) ==
    /\ ~ReaddirFails(tree, D)
    /\ \A c \in DOMAIN tree : (c # D /\ Dirname(c) = D) => ~StatFails(tree, c)

\* the directories below dir that were listed and profiled: the directory
\* and every directory on the way to it from below dir are profilable
ProfiledDirs(tree, dir) ==
    {D \in DOMAIN tree :
        /\ Below(D, dir)
        /\ tree[D].kind = "dir"
        /\ \A A \in (Between(D, dir) \ {dir}) \cup {D} : Profilable(tree, A)}

\* C15: analyze on a root that does not exist fails as a whole: nothing is
\* listed or counted, no report comes back, the reply is a failure carrying
\* the error; and when the root exists and can be listed the reply is a
\* report, whatever fails below the root
C15_MissingRootFailsWhole ==
    analyzeCall.drivePath # "" =>
        /\ ~pathExists(Tree, ScanRoot) =>
               /\ ~analyzeReply.success
               /\ analyzeReply.data = <<>>
               /\ analyzeReply.error = "Drive path does not exist: " \o ScanRoot
               /\ analyzeCall.listings = <<>>
               /\ analyzeCall.visited = <<>>
        /\ ~ReaddirFails(Tree, ScanRoot) =>
               /\ analyzeReply.success
               /\ Scan.metadata.drivePath = ScanRoot
               /\ DOMAIN Scan = {"metadata", "folders", "largeFiles", "duplicates",
                                 "systemFiles", "protectedFiles", "errors"}

\* an analysis of a root that does not exist, in a tree that has entries
C15_Witness ==
    /\ analyzeCall.drivePath # ""
    /\ ~pathExists(Tree, ScanRoot)
    /\ ~analyzeReply.success
    /\ Cardinality(DOMAIN Tree) > 1

\* C11: folderCount is the number of directories below the scan root that
\* were listed (and profiled), a directory whose listing or profiling
\* failed not being counted, and folderCount is the length of folders
C11_FolderCountListed ==
    Scanned =>
        /\ Scan.metadata.folderCount = Cardinality(ProfiledDirs(Tree, ScanRoot))
        /\ Scan.metadata.folderCount = Len(Scan.folders)

ChildrenOf(tree, D) == {c \in DOMAIN tree : c # D /\ Dirname(c) = D}

RECURSIVE SumLoose(_)
SumLoose(looseFiles) ==
    IF looseFiles = <<>> THEN 0
    ELSE Head(looseFiles).size + SumLoose(Tail(looseFiles))

\* C12: every folder profile of a report has size the sum of the sizes of
\* its own looseFiles and fileCount their number; looseFiles are exactly
\* the files directly in the folder (nothing nested contributes) and
\* subfolders exactly the names of the directories directly in it
C12_ProfileIsShallow ==
    Scanned =>
        \A i \in DOMAIN Scan.folders :
            LET f == Scan.folders[i]
                files == {c \in ChildrenOf(Tree, f.path) : Tree[c].kind = "file"}
                dirs == {c \in ChildrenOf(Tree, f.path) : Tree[c].kind = "dir"}
            IN  /\ f.size = SumLoose(f.looseFiles)
                /\ f.size = SumSizes(Tree, files)
                /\ f.fileCount = Len(f.looseFiles)
                /\ Len(f.looseFiles) = Cardinality(files)
                /\ {JoinPath(f.path, f.looseFiles[k].name) :
                       k \in DOMAIN f.looseFiles} = files
                /\ \A k \in DOMAIN f.looseFiles :
                       f.looseFiles[k].size =
                           Tree[JoinPath(f.path, f.looseFiles[k].name)].size
                /\ Len(f.subfolders) = Cardinality(dirs)
                /\ Range(f.subfolders) = {Basename(d) : d \in dirs}

\* a profile with loose files of its own and a subfolder that holds a file
C12_Witness ==
    /\ Scanned
    /\ \E i, j \in DOMAIN Scan.folders :
          /\ Len(Scan.folders[i].looseFiles) = 2
          /\ Scan.folders[i].subfolders # <<>>
          /\ Dirname(Scan.folders[j].path) = Scan.folders[i].path
          /\ Scan.folders[j].looseFiles # <<>>
          /\ Scan.folders[j].size > 0

(***************************************************************************)
(* Properties of the classification and of the folders list (SpecNamed)    *)
(***************************************************************************)
PathsOf(records) == {records[i].path : i \in DOMAIN records}

\* C13: every counted file is in largeFiles iff its size exceeds 100 MiB,
\* in systemFiles iff its name is one of the system names, in
\* protectedFiles iff its name matches a protected pattern, each list
\* decided without regard to the other two and holding a file once
C13_CategoriesIndependent ==
    Scanned =>
        /\ \A p \in Range(analyzeCall.visited) :
              /\ p \in PathsOf(Scan.largeFiles) <=> Tree[p].size > 104857600
              /\ p \in PathsOf(Scan.systemFiles) <=>
                     Basename(p) \in {".DS_Store", "Thumbs.db",
                                      ".Spotlight-V100", ".fseventsd"}
              /\ p \in PathsOf(Scan.protectedFiles) <=>
                     \E pattern \in {"gemini", "ai", "assistant", "code", "project"} :
                         includes(toLowerCase(Basename(p)), pattern)
        /\ \A list \in {Scan.largeFiles, Scan.systemFiles, Scan.protectedFiles} :
              /\ PathsOf(list) \subseteq Range(analyzeCall.visited)
              /\ Cardinality(PathsOf(list)) = Len(list)

\* a large protected file next to a large system file
C13_Witness ==
    /\ Scanned
    /\ PathsOf(Scan.largeFiles) \cap PathsOf(Scan.protectedFiles) # {}
    /\ PathsOf(Scan.largeFiles) \cap PathsOf(Scan.systemFiles) # {}

\* the directories the walk came across below the scan root
Encountered == Range(analyzeCall.listings) \ {ScanRoot}

\* p comes before q in the depth-first pre-order of listings sorted by name
PreOrderBefore(p, q) == Below(q, p) \/ (~Below(p, q) /\ VisitedBefore(p, q))

FoldersInPreOrder ==
    \A i, j \in DOMAIN Scan.folders :
        i < j => PreOrderBefore(Scan.folders[i].path, Scan.folders[j].path)

\* C18 as stated: folders holds exactly one profile for every directory
\* the walk came across, in depth-first pre-order
C18_OneProfilePerDirectory ==
    Scanned =>
        /\ {Scan.folders[i].path : i \in DOMAIN Scan.folders} = Encountered
        /\ Len(Scan.folders) = Cardinality(Encountered)
        /\ FoldersInPreOrder

\* C18 amended: folders holds exactly one profile for every directory the
\* walk came across whose profile could be built (its listing and the stat
\* of each of its entries succeeded) and none for any other, in depth-first
\* pre-order: a directory before the directories of its subtree, and those
\* before its later siblings
C18_OneProfilePerProfiledDirectory ==
    Scanned =>
        /\ {Scan.folders[i].path : i \in DOMAIN Scan.folders}
               = {D \in Encountered : Profilable(Tree, D)}
        /\ Len(Scan.folders) = Cardinality({D \in Encountered : Profilable(Tree, D)})
        /\ \A i \in DOMAIN Scan.folders :
               Scan.folders[i].name = Basename(Scan.folders[i].path)
        /\ FoldersInPreOrder

\* the profiles of a directory, of a directory in it and of a later
\* sibling, in that order
C18_Witness ==
    /\ Scanned
    /\ Len(Scan.folders) = 3
    /\ Below(Scan.folders[2].path, Scan.folders[1].path)
    /\ Dirname(Scan.folders[3].path) = Dirname(Scan.folders[1].path)

(***************************************************************************)
(* Properties of the renderer (SpecUI, SpecPlan)                           *)
(***************************************************************************)
HasAnalysis == appState.analysis # NullAnalysis

\* C14: the protectedFiles of the analysis the renderer holds are the
\* counted files whose lowercased name contains a lowercased pattern of
\* the list configured when the scan was requested
C14_ProtectedByConfiguredPatterns ==
    HasAnalysis =>
        PathsOf(appState.analysis.protectedFiles) =
            {p \in Range(ui.scan.visited) :
                \E k \in DOMAIN ui.scan.patterns :
                    includes(toLowerCase(Basename(p)), toLowerCase(ui.scan.patterns[k]))}

Planned == ui.plan # NullAnalysis

\* the text after the last dot of a name
LastExtension(name) == SubSeq(name, LastIndexOf(name, ".", Len(name)) + 1, Len(name))

Movable(name) ==
    /\ includes(name, ".")
    /\ Head(name) # "."
    /\ toLowerCase(LastExtension(name)) \in
           {"jpg", "jpeg", "png", "gif", "pdf", "doc", "docx", "txt",
            "mp4", "mov", "mp3", "wav"}

DestinationOf(name) ==
    LET e == toLowerCase(LastExtension(name))
    IN  CASE e \in {"jpg", "jpeg", "png", "gif"} -> "Images"
          [] e \in {"pdf", "doc", "docx", "txt"} -> "Documents"
          [] e \in {"mp4", "mov"} -> "Videos"
          [] e \in {"mp3", "wav"} -> "Audio"

\* the moves the fixed mapping gives for the loose files of an analysis
ExpectedMoves(analysis) ==
    UNION {{[type |-> "move",
             source |-> analysis.folders[i].path \o "/" \o analysis.folders[i].looseFiles[k].name,
             destination |-> analysis.folders[i].path \o "/"
                                 \o DestinationOf(analysis.folders[i].looseFiles[k].name)
                                 \o "/" \o analysis.folders[i].looseFiles[k].name] :
               k \in {x \in DOMAIN analysis.folders[i].looseFiles :
                         Movable(analysis.folders[i].looseFiles[x].name)}} :
           i \in DOMAIN analysis.folders}

\* C16: a plan is generated from every analysis, and its moves are exactly
\* one per loose file whose name has a dot, does not start with a dot and
\* has a mapped last extension, to <folder>/<mapped folder>/<name>; no other
\* loose file is the source of an operation
C16_MovesByExtension ==
    Planned =>
        LET moves == SelectSeq(ui.plan.operations, LAMBDA op : op.type = "move")
        IN  /\ ~ui.plan.threw
            /\ Range(moves) = ExpectedMoves(ui.plan.analysis)
            /\ Len(moves) = Cardinality(ExpectedMoves(ui.plan.analysis))
            /\ \A k \in DOMAIN ui.plan.operations :
                   Field(ui.plan.operations[k], "source") # Undefined =>
                       ui.plan.operations[k].type = "move"

DeletedPaths(operations) ==
    {operations[k].path : k \in {x \in DOMAIN operations : operations[x].type = "delete"}}

\* C17: the plan generated from an analysis holds no Delete of a file the
\* analysis lists in protectedFiles
C17_NoDeleteOfProtected ==
    /\ HasAnalysis =>
           DeletedPaths(generateOperations(appState.analysis).operations)
               \cap PathsOf(appState.analysis.protectedFiles) = {}
    /\ Planned =>
           DeletedPaths(ui.plan.operations)
               \cap PathsOf(ui.plan.analysis.protectedFiles) = {}

\* a plan with a Delete, generated from an analysis that lists a protected
\* file, and sent to the executor
C17_Witness ==
    /\ Planned
    /\ DeletedPaths(ui.plan.operations) # {}
    /\ ui.plan.analysis.protectedFiles # <<>>
    /\ ipc.organize # <<>>

\* C20: at most one organize-files run requested by startOrganization is in
\* flight; isOrganizing is true exactly while one is, so a click that finds
\* it true starts nothing and the end of the run resets it
C20_OneRunInFlight ==
    /\ Len(ipc.organize) <= 1
    /\ appState.isOrganizing <=> Len(ipc.organize) = 1

\* a click on the organize button while the run of an earlier click has
\* been carried out and its reply not yet received
C20_Witness ==
    /\ ui.ignored
    /\ Len(ipc.organize) = 1
    /\ ipc.organize[1].stage = "replied"
    /\ appState.isOrganizing

\* the plan generateOperations gives for a fresh scan of root on tree
FreshPlan(tree, root) == generateOperations(Report(analyzeDrive(tree, root).analysis))

\* organize-files call id was a real run, of the plan of a scan of the
\* tree it started from, every operation of it succeeded and the tree is
\* as the run left it
OrganizedOnce(id) ==
    /\ organizeReply[id].success
    /\ ~organizeCall[id].dryRun
    /\ organizeCall[id].left = fs
    /\ \A k \in DOMAIN organizeCall[id].outcomes : organizeCall[id].outcomes[k]
    /\ ~analyzeDrive(organizeCall[id].fs, Root).threw
    /\ ~FreshPlan(organizeCall[id].fs, Root).threw
    /\ organizeCall[id].operations = FreshPlan(organizeCall[id].fs, Root).operations

\* the latest plan is the one of a scan made of the tree as it is now
PlannedAfresh ==
    /\ Planned
    /\ ~ui.plan.threw
    /\ ~analyzeDrive(fs, Root).threw
    /\ ui.plan.analysis = Report(analyzeDrive(fs, Root).analysis)

\* C23: after a scan, a real run of its plan in which every operation
\* succeeded and a fresh scan of the tree the run left, the plan generated
\* from the second scan has no Move
C23_SecondPlanMovesNothing ==
    \A id \in DOMAIN organizeCall :
        OrganizedOnce(id) /\ PlannedAfresh
            => \A k \in DOMAIN ui.plan.operations : ui.plan.operations[k].type # "move"

(***************************************************************************)
(* Properties of calls in flight together (SpecAsync)                      *)
(***************************************************************************)
\* what the handler of a channel replies when its call is the only one
ReplyAlone(channel, tree, drivePath) ==
    LET r == analyzeDrive(tree, drivePath)
    IN  IF r.threw THEN [success |-> FALSE, data |-> <<>>, error |-> r.error]
        ELSE [success |-> TRUE,
              data |-> IF channel = "find-duplicates" THEN r.analysis.duplicates
                       ELSE Report(r.analysis)]

\* C21: a call of analyzeDrive that ran interleaved in any way with
\* another one, on a tree that does not change, replies what it replies
\* when run alone: the same counts, lists and duplicate pairings, or the
\* same failure
C21_InterleavedAsAlone ==
    \A id \in DOMAIN calls :
        calls[id].pc = "returned"
            => calls[id].reply = ReplyAlone(calls[id].channel, fs, calls[id].drivePath)

\* the second call made, a find-duplicates request, has returned a
\* duplicate while the first, a scan of the same root, is still in its own
\* duplicate scan with fingerprints of its own
C21_Witness ==
    /\ calls[1].channel = "analyze-drive"
    /\ calls[1].drivePath = Root
    /\ calls[1].pc = "findDuplicates"
    /\ DOMAIN calls[1].fileHashes # {}
    /\ calls[2].channel = "find-duplicates"
    /\ calls[2].drivePath = Root
    /\ calls[2].pc = "returned"
    /\ calls[2].reply.success
    /\ calls[2].reply.data # <<>>

====
